---- MODULE Spec2Model ----
(***************************************************************************)
(* Extraction orchestration of the resume parser:                          *)
(*   - processAndStoreResume (services/resumeService.js): the fallback     *)
(*     chain over the extraction engines and the transaction around it;   *)
(*   - getWorker / terminateWorker / performOCR (parsers/ocrParser.js):    *)
(*     the shared recognition worker handle and the per-page loop.         *)
(* Every action is one resumption of an async function: the synchronous    *)
(* code that runs from one await to the next.                              *)
(***************************************************************************)
EXTENDS Integers, Sequences, FiniteSets, TLC

\* ------------------------------------------------------------------ bounds
NumCalls == 1      \* concurrent processAndStoreResume calls
NumPipelineCalls == 1  \* calls of smartParse and hybridParse
NumUploads == 2    \* concurrent requests to POST /api/resume/upload
NumTexts == 2      \* distinct extracted texts an engine can return

NumTasks == 2      \* calls into ocrParser.js (getWorker, terminateWorker, performOCR)
MaxPages == 2      \* pages the rasterizer can produce for a document

MaxRegularChars == 2  \* longest digital text given to mergeTexts
MaxOcrChars == 3   \* longest recognition text given to mergeTexts
MaxLetters == 52   \* most non-whitespace characters of a text given to needsOCR
MaxInner == 40     \* most whitespace characters between them
MaxOuter == 2      \* most whitespace characters before, and after, them

\* needsOCR: avgCharsPerPage < 50, meaningfulRatio < 0.3 (3 / 10)
CharsPerPage == 50
RatioNum == 3
RatioDen == 10

Calls == 1..NumCalls
Uploads == 1..NumUploads
\* Every processAndStoreResume call, made directly or by the endpoint.
Slots == 1..(IF NumCalls > NumUploads THEN NumCalls ELSE NumUploads)
Texts == 1..NumTexts
Tasks == 1..NumTasks
PipelineTasks == 1..NumPipelineCalls

\* ------------------------------------------------- processAndStoreResume
VARIABLES
    pc,           \* [Slots -> position of the call]
    originalParser, \* [Slots -> the name the call was made with]
    parserName,   \* [Slots -> local parserName]
    parseResult,  \* [Slots -> last engine result]
    inflight,     \* [Slots -> engine whose invocation has not returned, or "none"]
    invoked,      \* [Slots -> sequence of returned engine invocations]
    txLog,        \* [Slots -> statements the call issued on its client]
    clientHeld,   \* [Slots -> the call holds a pooled client]
    pending,      \* [Slots -> row inserted in the open transaction, or NoRow]
    table,        \* committed rows of "parsedResume"
    nextId,       \* the SERIAL sequence of "parsedResume".id
    thrown,       \* [Slots -> message of the error caught by the catch block]
    result        \* [Slots -> the object the call resolved with]

storeVars == <<pc, originalParser, parserName, parseResult, inflight, invoked,
               txLog, clientHeld, pending, table, nextId, thrown, result>>

\* ------------------------------------------------------------ ocrParser.js
VARIABLES
    workerInstance,  \* module-level handle: a session id, or 0 for null
    workerLanguage,  \* module-level language of the handle, or "null"
    sessions,        \* sessions ever created by Tesseract.createWorker, by id
    task,            \* [Tasks -> the locals and position of the call]
    opCount          \* calls started so far

ocrVars == <<workerInstance, workerLanguage, sessions, task, opCount>>

\* ------------------------------------------------ POST /api/resume/upload
VARIABLES
    httpStatus       \* [Slots -> status the endpoint answered with, 0 before]

uploadVars == <<httpStatus>>

\* ------------------------------------- needsOCR, mergeTexts (pure functions)
VARIABLES
    fnIn,            \* the arguments of the function call under way
    fnOut            \* what the function returned

fnVars == <<fnIn, fnOut>>

Engines == {"pdf-parse", "pdfjs-dist", "pdf2json", "pdfreader"}

\* What a caller can pass as parserName: an engine name, another string, or
\* nothing at all.
ParserArgs == Engines \cup {"unknown", "omitted"}

\* The default parameter value of parserName.
DefaultParam(arg) == IF arg = "omitted" THEN "pdfjs-dist" ELSE arg

\* A default branch that leaves parserName as passed.
SwitchName_Kept(name) == name

\* The switch on parserName: the engine the primary attempt invokes.
SwitchEngine(name) == IF name \in Engines THEN name ELSE "pdfjs-dist"

\* The default branch of the switch also rewrites parserName.
SwitchName(name) == IF name \in Engines THEN name ELSE "pdfjs-dist"

NoResult == [success |-> FALSE, text |-> 0, error |-> "none"]
EngineOk(t) == [success |-> TRUE, text |-> t, error |-> "none"]
\* A failed engine answers {success: false, error}; the error is the engine's own.
EngineFail(e) == [success |-> FALSE, text |-> 0, error |-> e]

NoRow == [id |-> 0, hash |-> 0, parser |-> "none"]

\* generateHash: SHA-256 of the text, taken as collision free on Texts.
generateHash(t) == t

\* Variants of the guards with a slip in them: the third guard naming the wrong
\* engine, the second without the success test, the first without the skip.
FallbackGuard3_WrongName(pr, pn) == ~pr.success /\ pn # "pdf-parse"
FallbackGuard2_NoSuccessTest(pr, pn) == pn # "pdf-parse"
FallbackGuard1_NoSkip(pr, pn) == TRUE
\* The second guard without the test of the name.
FallbackGuard2_AnyName(pr, pn) == ~pr.success

\* The guards of the three fallback attempts (inside `if (!parseResult.success)`).
FallbackGuard3(pr, pn) == ~pr.success /\ pn # "pdf2json"
FallbackGuard2(pr, pn) == ~pr.success /\ pn # "pdf-parse"
FallbackGuard1(pr, pn) == pn # "pdfjs-dist"

\* The synchronous code from a given point of the chain up to the next engine
\* invocation: the engine invoked next, or "none" when the chain is over.
FromThird(pr, pn) == IF FallbackGuard3(pr, pn) THEN "pdf2json" ELSE "none"
FromSecond(pr, pn) == IF FallbackGuard2(pr, pn) THEN "pdf-parse" ELSE FromThird(pr, pn)
FromFirst(pr, pn) == IF FallbackGuard1(pr, pn) THEN "pdfjs-dist" ELSE FromSecond(pr, pn)
AfterPrimary(pr, pn) == IF ~pr.success THEN FromFirst(pr, pn) ELSE "none"

\* An engine answers with success and a text, or with failure and its error.
EngineAnswers(e) == {EngineOk(t) : t \in Texts} \cup {EngineFail(e)}

\* Error messages: what was thrown and, for a parse failure, whose error it carries.
NoError == <<"none", "none">>
\* new Error(`Failed to parse PDF: ${parseResult.error}`)
ParseFailure(pr) == <<"Failed to parse PDF", pr.error>>
\* The violation of CONSTRAINT unique_content_hash raised by the INSERT.
UniqueViolation == <<"duplicate key value", "unique_content_hash">>

\* The result objects of processAndStoreResume.
NoOutcome == [kind |-> "none", success |-> FALSE, error |-> <<"none", "none">>,
              parserUsed |-> "none", id |-> 0, hash |-> 0]
StoredOutcome(row) == [kind |-> "stored", success |-> TRUE, error |-> <<"none", "none">>,
                       parserUsed |-> row.parser, id |-> row.id, hash |-> row.hash]
DuplicateOutcome(id, h) == [kind |-> "duplicate", success |-> FALSE,
                            error |-> <<"none", "none">>,
                            parserUsed |-> "none", id |-> id, hash |-> h]
ErrorOutcome(msg) == [kind |-> "error", success |-> FALSE, error |-> msg,
                      parserUsed |-> "none", id |-> 0, hash |-> 0]
\* The call rejects: an error leaves the function.
RejectedOutcome(msg) == [kind |-> "rejected", success |-> FALSE, error |-> msg,
                         parserUsed |-> "none", id |-> 0, hash |-> 0]

\* Rows earlier calls may have committed: one per text, ids from the sequence.
StoredBefore == {[id |-> t, hash |-> generateHash(t), parser |-> "pdfjs-dist"] : t \in Texts}

StoreInit ==
    /\ pc = [c \in Slots |-> "idle"]
    /\ originalParser = [c \in Slots |-> "none"]
    /\ parserName = [c \in Slots |-> "none"]
    /\ parseResult = [c \in Slots |-> NoResult]
    /\ inflight = [c \in Slots |-> "none"]
    /\ invoked = [c \in Slots |-> <<>>]
    /\ txLog = [c \in Slots |-> <<>>]
    /\ clientHeld = [c \in Slots |-> FALSE]
    /\ pending = [c \in Slots |-> NoRow]
    /\ table \in SUBSET StoredBefore
    /\ nextId = NumTexts + 1
    /\ thrown = [c \in Slots |-> NoError]
    /\ result = [c \in Slots |-> NoOutcome]

\* processAndStoreResume(pdfInput, filename, filePath, fileSize, parserName):
\* up to `await getClient()`.
CallStore(c, arg) ==
    /\ pc[c] = "idle"
    /\ pc' = [pc EXCEPT ![c] = "getClient"]
    /\ parserName' = [parserName EXCEPT ![c] = DefaultParam(arg)]
    /\ UNCHANGED <<originalParser, parseResult, inflight, invoked, txLog, clientHeld,
                   pending, table, nextId, thrown, result>>
    /\ UNCHANGED <<ocrVars, uploadVars, fnVars>>

\* getClient resolved; `await client.query('BEGIN')` is issued.
GotClient(c) ==
    /\ pc[c] = "getClient"
    /\ clientHeld' = [clientHeld EXCEPT ![c] = TRUE]
    /\ txLog' = [txLog EXCEPT ![c] = Append(@, "BEGIN")]
    /\ pc' = [pc EXCEPT ![c] = "begin"]
    /\ UNCHANGED <<originalParser, parserName, parseResult, inflight, invoked,
                   pending, table, nextId, thrown, result>>
    /\ UNCHANGED <<ocrVars, uploadVars, fnVars>>

\* BEGIN resolved; originalParser is recorded and the switch invokes the
\* selected engine.
Begun(c) ==
    /\ pc[c] = "begin"
    /\ originalParser' = [originalParser EXCEPT ![c] = parserName[c]]
    /\ inflight' = [inflight EXCEPT ![c] = SwitchEngine(parserName[c])]
    /\ pc' = [pc EXCEPT ![c] = "primary"]
    /\ UNCHANGED <<parserName, parseResult, invoked, txLog, clientHeld,
                   pending, table, nextId, thrown, result>>
    /\ UNCHANGED <<ocrVars, uploadVars, fnVars>>

\* The code after the fallback chain, up to the next await: the throw into the
\* catch block (ROLLBACK is issued) or the hash and the SELECT.
AfterChain(c, pr) ==
    IF ~pr.success
    THEN /\ thrown' = [thrown EXCEPT ![c] = ParseFailure(pr)]
         /\ txLog' = [txLog EXCEPT ![c] = Append(@, "ROLLBACK")]
         /\ pc' = [pc EXCEPT ![c] = "catch"]
    ELSE /\ txLog' = [txLog EXCEPT ![c] = Append(@, "SELECT")]
         /\ pc' = [pc EXCEPT ![c] = "select"]
         /\ UNCHANGED thrown

\* The await a fallback invocation of engine e suspends at.
AwaitOf(e) == CASE e = "pdfjs-dist" -> "fallback1"
                [] e = "pdf-parse" -> "fallback2"
                [] OTHER -> "fallback3"

\* Resumption after an engine invocation at chain position `at`: `next` is the
\* engine the code invokes next ("none": the chain is over), `pn` the new
\* value of parserName.
EngineReturned(c, at, pr, pn, next) ==
    /\ pc[c] = at
    /\ pr \in EngineAnswers(inflight[c])
    /\ parseResult' = [parseResult EXCEPT ![c] = pr]
    /\ invoked' = [invoked EXCEPT ![c] = Append(@, [engine |-> inflight[c], ok |-> pr.success])]
    /\ parserName' = [parserName EXCEPT ![c] = pn]
    /\ inflight' = [inflight EXCEPT ![c] = next]
    /\ IF next # "none"
       THEN /\ pc' = [pc EXCEPT ![c] = AwaitOf(next)]
            /\ UNCHANGED <<txLog, thrown>>
       ELSE AfterChain(c, pr)
    /\ UNCHANGED <<originalParser, clientHeld, pending, table, nextId, result>>
    /\ UNCHANGED <<ocrVars, uploadVars, fnVars>>

\* `parseResult = await parseWith...(pdfInput)` of the switch.
PrimaryReturned(c) ==
    \E pr \in EngineAnswers(inflight[c]) :
        LET pn == SwitchName(parserName[c])
        IN  EngineReturned(c, "primary", pr, pn, AfterPrimary(pr, pn))

\* `parseResult = await parseWithPdfJs(pdfInput)` of the first fallback.
Fallback1Returned(c) ==
    \E pr \in EngineAnswers(inflight[c]) :
        LET pn == IF pr.success THEN "pdfjs-dist" ELSE parserName[c]
        IN  EngineReturned(c, "fallback1", pr, pn, FromSecond(pr, pn))

\* `parseResult = await parseWithPdfParse(pdfInput)` of the second fallback.
Fallback2Returned(c) ==
    \E pr \in EngineAnswers(inflight[c]) :
        LET pn == IF pr.success THEN "pdf-parse" ELSE parserName[c]
        IN  EngineReturned(c, "fallback2", pr, pn, FromThird(pr, pn))

\* `parseResult = await parseWithPdf2Json(pdfInput)` of the third fallback.
Fallback3Returned(c) ==
    \E pr \in EngineAnswers(inflight[c]) :
        LET pn == IF pr.success THEN "pdf2json" ELSE parserName[c]
        IN  EngineReturned(c, "fallback3", pr, pn, "none")

\* Rows a statement of any transaction can see: the committed ones.
RowsWithHash(h) == {r \in table : r.hash = h}

\* The SELECT by content_hash resolved: a duplicate issues ROLLBACK, otherwise
\* the INSERT is issued.
Selected(c) ==
    /\ pc[c] = "select"
    /\ LET h == generateHash(parseResult[c].text)
       IN  IF RowsWithHash(h) # {}
           THEN /\ txLog' = [txLog EXCEPT ![c] = Append(@, "ROLLBACK")]
                /\ pc' = [pc EXCEPT ![c] = "duplicate"]
           ELSE /\ txLog' = [txLog EXCEPT ![c] = Append(@, "INSERT")]
                /\ pc' = [pc EXCEPT ![c] = "insert"]
    /\ UNCHANGED <<originalParser, parserName, parseResult, inflight, invoked,
                   clientHeld, pending, table, nextId, thrown, result>>
    /\ UNCHANGED <<ocrVars, uploadVars, fnVars>>

\* The ROLLBACK of the duplicate branch resolved: the call returns the id of
\* the existing row; finally releases the client.
DuplicateReturned(c) ==
    /\ pc[c] = "duplicate"
    /\ LET h == generateHash(parseResult[c].text)
           existing == CHOOSE r \in RowsWithHash(h) : TRUE
       IN  result' = [result EXCEPT ![c] = DuplicateOutcome(existing.id, h)]
    /\ clientHeld' = [clientHeld EXCEPT ![c] = FALSE]
    /\ pc' = [pc EXCEPT ![c] = "done"]
    /\ UNCHANGED <<originalParser, parserName, parseResult, inflight, invoked,
                   txLog, pending, table, nextId, thrown>>
    /\ UNCHANGED <<ocrVars, uploadVars, fnVars>>

\* A table without the constraint.
ViolatesUnique_NoConstraint(h) == FALSE

\* CONSTRAINT unique_content_hash UNIQUE(content_hash): an INSERT of a hash a
\* committed row already has is rejected.
ViolatesUnique(h) == RowsWithHash(h) # {}

\* The INSERT resolved or threw. UNIQUE(content_hash): the statement waits
\* while another open transaction holds a row with that hash, fails when a
\* committed row has it, and otherwise adds the row to the transaction.
Inserted(c) ==
    /\ pc[c] = "insert"
    /\ LET h == generateHash(parseResult[c].text)
       IN  /\ \A d \in Slots \ {c} : pending[d].hash # h
           /\ nextId' = nextId + 1
           /\ IF ViolatesUnique(h)
              THEN /\ thrown' = [thrown EXCEPT ![c] = UniqueViolation]
                   /\ txLog' = [txLog EXCEPT ![c] = Append(@, "ROLLBACK")]
                   /\ pc' = [pc EXCEPT ![c] = "catch"]
                   /\ UNCHANGED pending
              ELSE /\ pending' = [pending EXCEPT ![c] =
                                    [id |-> nextId, hash |-> h, parser |-> parserName[c]]]
                   /\ txLog' = [txLog EXCEPT ![c] = Append(@, "COMMIT")]
                   /\ pc' = [pc EXCEPT ![c] = "commit"]
                   /\ UNCHANGED thrown
    /\ UNCHANGED <<originalParser, parserName, parseResult, inflight, invoked,
                   clientHeld, table, result>>
    /\ UNCHANGED <<ocrVars, uploadVars, fnVars>>

\* COMMIT resolved: the row is stored and the call returns success.
Committed(c) ==
    /\ pc[c] = "commit"
    /\ table' = table \cup {pending[c]}
    /\ result' = [result EXCEPT ![c] = StoredOutcome(pending[c])]
    /\ pending' = [pending EXCEPT ![c] = NoRow]
    /\ clientHeld' = [clientHeld EXCEPT ![c] = FALSE]
    /\ pc' = [pc EXCEPT ![c] = "done"]
    /\ UNCHANGED <<originalParser, parserName, parseResult, inflight, invoked,
                   txLog, nextId, thrown>>
    /\ UNCHANGED <<ocrVars, uploadVars, fnVars>>

\* The ROLLBACK of the catch block resolved: the call returns
\* {success: false, error: error.message}; finally releases the client.
CatchReturned(c) ==
    /\ pc[c] = "catch"
    /\ pending' = [pending EXCEPT ![c] = NoRow]
    /\ result' = [result EXCEPT ![c] = ErrorOutcome(thrown[c])]
    /\ clientHeld' = [clientHeld EXCEPT ![c] = FALSE]
    /\ pc' = [pc EXCEPT ![c] = "done"]
    /\ UNCHANGED <<originalParser, parserName, parseResult, inflight, invoked,
                   txLog, table, nextId, thrown>>
    /\ UNCHANGED <<ocrVars, uploadVars, fnVars>>

\* The error of a client.query(statement) that rejects.
QueryFailure(statement) == <<"query failed", statement>>

EnterCatch_NoRollback(log) == log

\* catch (error) { await client.query('ROLLBACK'); ... }: the statement the
\* catch block issues.
EnterCatch(log) == Append(log, "ROLLBACK")

\* `await getClient()` rejected: the call rejects before the try block.
GetClientFailed(c) ==
    /\ pc[c] = "getClient"
    /\ result' = [result EXCEPT ![c] = RejectedOutcome(<<"getClient failed", "none">>)]
    /\ pc' = [pc EXCEPT ![c] = "done"]
    /\ UNCHANGED <<originalParser, parserName, parseResult, inflight, invoked,
                   txLog, clientHeld, pending, table, nextId, thrown>>
    /\ UNCHANGED <<ocrVars, uploadVars, fnVars>>

\* The statement the call awaits (BEGIN, SELECT, the ROLLBACK of the duplicate
\* branch, INSERT or COMMIT) rejected: the catch block issues ROLLBACK.
StatementFailed(c) ==
    /\ pc[c] \in {"begin", "select", "duplicate", "insert", "commit"}
    /\ thrown' = [thrown EXCEPT ![c] = QueryFailure(txLog[c][Len(txLog[c])])]
    /\ txLog' = [txLog EXCEPT ![c] = EnterCatch(@)]
    /\ pc' = [pc EXCEPT ![c] = "catch"]
    /\ UNCHANGED <<originalParser, parserName, parseResult, inflight, invoked,
                   clientHeld, pending, table, nextId, result>>
    /\ UNCHANGED <<ocrVars, uploadVars, fnVars>>

\* The ROLLBACK of the catch block rejected: the error leaves the catch block,
\* finally releases the client and the call rejects.
CatchRollbackFailed(c) ==
    /\ pc[c] = "catch"
    /\ pending' = [pending EXCEPT ![c] = NoRow]
    /\ result' = [result EXCEPT ![c] = RejectedOutcome(QueryFailure("ROLLBACK"))]
    /\ clientHeld' = [clientHeld EXCEPT ![c] = FALSE]
    /\ pc' = [pc EXCEPT ![c] = "done"]
    /\ UNCHANGED <<originalParser, parserName, parseResult, inflight, invoked,
                   txLog, table, nextId, thrown>>
    /\ UNCHANGED <<ocrVars, uploadVars, fnVars>>

StoreNext ==
    \E c \in Calls :
        \/ \E arg \in ParserArgs : CallStore(c, arg)
        \/ GotClient(c)
        \/ Begun(c)
        \/ PrimaryReturned(c)
        \/ Fallback1Returned(c)
        \/ Fallback2Returned(c)
        \/ Fallback3Returned(c)
        \/ Selected(c)
        \/ DuplicateReturned(c)
        \/ Inserted(c)
        \/ Committed(c)
        \/ CatchReturned(c)

\* ------------------------------------------------ POST /api/resume/upload
\* The status the endpoint answers with, by the result of processAndStoreResume.
StatusOf(res) ==
    IF res.success THEN 200
    ELSE IF res.kind = "duplicate" THEN 409
    ELSE 500

\* A request without a file is answered with 400.
UploadRejected(c) ==
    /\ pc[c] = "idle"
    /\ httpStatus[c] = 0
    /\ httpStatus' = [httpStatus EXCEPT ![c] = 400]
    /\ UNCHANGED <<storeVars, ocrVars, fnVars>>

\* A request with a file: the handler calls processAndStoreResume(path,
\* originalname, path, size), without a parser name.
UploadRequest(c) ==
    /\ httpStatus[c] = 0
    /\ CallStore(c, "omitted")

\* processAndStoreResume resolved; the handler answers.
Responded(c) ==
    /\ pc[c] = "done"
    /\ httpStatus[c] = 0
    /\ httpStatus' = [httpStatus EXCEPT ![c] = StatusOf(result[c])]
    /\ UNCHANGED <<storeVars, ocrVars, fnVars>>

\* Requests are handled concurrently.
UploadNext ==
    \E c \in Uploads :
        \/ UploadRejected(c)
        \/ UploadRequest(c)
        \/ GotClient(c)
        \/ Begun(c)
        \/ PrimaryReturned(c)
        \/ Fallback2Returned(c)
        \/ Fallback3Returned(c)
        \/ Selected(c)
        \/ DuplicateReturned(c)
        \/ Inserted(c)
        \/ Committed(c)
        \/ CatchReturned(c)
        \/ Responded(c)

\* ------------------------------------- getWorker, terminateWorker, performOCR
Languages == {"eng", "fra"}
\* A language code Tesseract has no trained data for.
UnsupportedLanguages == {"xx"}
\* `scale` in tenths: `scale = fast ? 1.0 : 1.5` when the option is omitted.
DefaultScale == 15
\* The scales a caller passes: negative, zero, the default.
Scales == {0 - DefaultScale, 0, DefaultScale}
\* How Tesseract.createWorker(language) can end: TRUE resolved, FALSE rejected.
CreateOutcomes(lang) == IF lang \in Languages THEN BOOLEAN ELSE {FALSE}
\* result.data.confidence of a recognized page.
Confidences == {50, 90}
\* pageError.message of a rejected page: a non-empty string, or undefined when
\* the rejection value carries no message.
Messages == {"message", "undefined"}

NoSnapshot == [inst |-> 0, lang |-> "null", terms |-> 0]
NoRun == [status |-> "none", success |-> FALSE, error |-> "none",
          numPages |-> 0, avg |-> <<0, 1>>]

\* What the regular parser handed to smartParse or hybridParse answered.
NoRegular == [status |-> "none", success |-> FALSE, text |-> <<>>, numPages |-> 0]

\* The object smartParse or hybridParse returns. A key the object does not
\* have is "absent".
NoFinal == [status |-> "none", success |-> FALSE, text |-> <<>>, numPages |-> 0,
            usedOCR |-> "absent", error |-> "absent", warning |-> "absent"]

\* `caller`: the function that awaits this performOCR call, "none" for a call
\* made directly; `log`: the calls that function made and their returns;
\* `seq`: the position of the call among the calls started; `end`: how many
\* calls had started when it ended; `images`: the pages whose image file the
\* rasterizer wrote and nothing has deleted.
IdleTask == [pc |-> "idle", op |-> "none", language |-> "null", reuseWorker |-> FALSE,
             scale |-> DefaultScale, images |-> {},
             seq |-> 0, end |-> 0, entry |-> NoSnapshot, term |-> 0, ret |-> 0, worker |-> 0,
             pngPages |-> 0, i |-> 0, rec |-> 0, pageResults |-> <<>>,
             fullText |-> <<>>, failedPages |-> {}, out |-> NoRun,
             caller |-> "none", regular |-> NoRegular, log |-> <<>>,
             final |-> NoFinal]

OcrInit ==
    /\ workerInstance = 0
    /\ workerLanguage = "null"
    /\ sessions = <<>>
    /\ task = [t \in Tasks |-> IdleTask]
    /\ opCount = 0

\* A session as Tesseract.createWorker(language) resolves with it. `shared`:
\* created by getWorker; `op`: the call that created it; `terms`: how often
\* terminate() was invoked on it.
NewSession(lang, shared, op) ==
    [lang |-> lang, state |-> "live", shared |-> shared, terms |-> 0, op |-> op]

TerminateInvoked_NotCounted(s) == s

\* worker.terminate() is invoked on the session.
TerminateInvoked(s) ==
    [s EXCEPT !.terms = @ + 1,
              !.state = IF @ = "live" THEN "terminating" ELSE @]

\* The promise of worker.terminate() resolved.
TerminateResolved(s) == [s EXCEPT !.state = "terminated"]

\* Variants with a slip: a worker replaced on every call, an old worker never
\* terminated.
NeedsNewWorker_Always(inst, wlang, lang) == TRUE
HasOldWorker_Never(inst) == FALSE

\* getWorker: `!workerInstance || workerLanguage !== language`.
NeedsNewWorker(inst, wlang, lang) == inst = 0 \/ wlang # lang

\* getWorker: `if (workerInstance)` before the old worker is terminated.
HasOldWorker(inst) == inst # 0

\* The handle as a call finds it.
Snapshot ==
    [inst |-> workerInstance, lang |-> workerLanguage,
     terms |-> IF workerInstance = 0 THEN 0 ELSE sessions[workerInstance].terms]

\* getWorker(language) from its entry to its first await or its return, run
\* by task t whose record is tk.
EnterGetWorker(t, tk) ==
    /\ IF NeedsNewWorker(workerInstance, workerLanguage, tk.language)
       THEN IF HasOldWorker(workerInstance)
            THEN /\ sessions' = [sessions EXCEPT ![workerInstance] = TerminateInvoked(@)]
                 /\ task' = [task EXCEPT ![t] = [tk EXCEPT !.pc = "gw_terminate",
                                                            !.term = workerInstance,
                                                            !.entry = Snapshot]]
            ELSE /\ task' = [task EXCEPT ![t] = [tk EXCEPT !.pc = "gw_create",
                                                            !.entry = Snapshot]]
                 /\ UNCHANGED sessions
       ELSE /\ task' = [task EXCEPT ![t] = [tk EXCEPT !.pc = "gw_return",
                                                       !.ret = workerInstance,
                                                       !.entry = Snapshot]]
            /\ UNCHANGED sessions
    /\ UNCHANGED <<workerInstance, workerLanguage>>

\* A caller invokes getWorker(language).
CallGetWorker(t, lang) ==
    /\ task[t].pc = "idle"
    /\ opCount' = opCount + 1
    /\ EnterGetWorker(t, [task[t] EXCEPT !.op = "getWorker", !.language = lang,
                                         !.seq = opCount + 1])
    /\ UNCHANGED <<storeVars, uploadVars, fnVars>>

\* getWorker: `await workerInstance.terminate()` resolved; createWorker is invoked.
GwTerminated(t) ==
    /\ task[t].pc = "gw_terminate"
    /\ sessions' = [sessions EXCEPT ![task[t].term] = TerminateResolved(@)]
    /\ task' = [task EXCEPT ![t].pc = "gw_create"]
    /\ UNCHANGED <<workerInstance, workerLanguage, opCount>>
    /\ UNCHANGED <<storeVars, uploadVars, fnVars>>

\* A call ends: getWorker resolves with a worker or rejects; performOCR
\* resolves with its result object.
Resolved(tk, run) ==
    [tk EXCEPT !.pc = IF tk.caller = "none" THEN "done" ELSE "ocr_return",
               !.out = run, !.end = opCount]

\* performOCR's outer catch: {success: false, error: error.message}.
OcrFailure(reason) == [NoRun EXCEPT !.status = "resolved", !.error = reason]

\* getWorker: `workerInstance = await Tesseract.createWorker(language)` resolved
\* (the handle is assigned and returned) or rejected (getWorker rejects; inside
\* performOCR the outer catch turns that into a failure result).
GwCreated(t) ==
    /\ task[t].pc = "gw_create"
    /\ \E ok \in CreateOutcomes(task[t].language) :
        IF ok
        THEN /\ sessions' = Append(sessions, NewSession(task[t].language, TRUE, task[t].seq))
             /\ workerInstance' = Len(sessions) + 1
             /\ workerLanguage' = task[t].language
             /\ task' = [task EXCEPT ![t].pc = "gw_return", ![t].ret = Len(sessions) + 1]
        ELSE /\ task' = [task EXCEPT ![t] =
                    IF task[t].op = "getWorker"
                    THEN Resolved(@, [NoRun EXCEPT !.status = "rejected", !.error = "createWorker"])
                    ELSE Resolved(@, OcrFailure("createWorker"))]
             /\ UNCHANGED <<sessions, workerInstance, workerLanguage>>
    /\ UNCHANGED opCount
    /\ UNCHANGED <<storeVars, uploadVars, fnVars>>

\* terminateWorker(): up to `await workerInstance.terminate()`, or straight to
\* the end when the handle is empty.
CallTerminateWorker(t) ==
    /\ task[t].pc = "idle"
    /\ opCount' = opCount + 1
    /\ LET tk == [task[t] EXCEPT !.op = "terminateWorker", !.seq = opCount + 1,
                                 !.entry = Snapshot]
       IN  IF workerInstance # 0
           THEN /\ sessions' = [sessions EXCEPT ![workerInstance] = TerminateInvoked(@)]
                /\ task' = [task EXCEPT ![t] = [tk EXCEPT !.pc = "tw_terminate",
                                                           !.term = workerInstance]]
           ELSE /\ task' = [task EXCEPT ![t] = Resolved(tk, [NoRun EXCEPT !.status = "resolved"])]
                /\ UNCHANGED sessions
    /\ UNCHANGED <<workerInstance, workerLanguage>>
    /\ UNCHANGED <<storeVars, uploadVars, fnVars>>

\* terminateWorker: terminate() resolved; the handle is cleared.
TwTerminated(t) ==
    /\ task[t].pc = "tw_terminate"
    /\ sessions' = [sessions EXCEPT ![task[t].term] = TerminateResolved(@)]
    /\ workerInstance' = 0
    /\ workerLanguage' = "null"
    /\ task' = [task EXCEPT ![t] = Resolved(@, [NoRun EXCEPT !.status = "resolved"])]
    /\ UNCHANGED opCount
    /\ UNCHANGED <<storeVars, uploadVars, fnVars>>

\* performOCR(pdfPath, {language, reuseWorker}): up to `await pdfToPng(...)`.
CallPerformOCR(t, lang, reuse) ==
    /\ task[t].pc = "idle"
    /\ opCount' = opCount + 1
    /\ task' = [task EXCEPT ![t] = [@ EXCEPT !.pc = "rasterizing", !.op = "performOCR",
                                             !.language = lang, !.reuseWorker = reuse,
                                             !.seq = opCount + 1]]
    /\ UNCHANGED <<workerInstance, workerLanguage, sessions>>
    /\ UNCHANGED <<storeVars, uploadVars, fnVars>>

\* performOCR(pdfPath, {scale, language, reuseWorker}): the options are
\* destructured and used as they are, up to `await pdfToPng(..., {viewportScale:
\* scale, ...})`.
CallPerformOCRWith(t, scale, lang, reuse) ==
    /\ task[t].pc = "idle"
    /\ opCount' = opCount + 1
    /\ task' = [task EXCEPT ![t] = [@ EXCEPT !.pc = "rasterizing", !.op = "performOCR",
                                             !.scale = scale,
                                             !.language = lang, !.reuseWorker = reuse,
                                             !.seq = opCount + 1]]
    /\ UNCHANGED <<workerInstance, workerLanguage, sessions>>
    /\ UNCHANGED <<storeVars, uploadVars, fnVars>>

\* What the rasterizer answers: -1 when mkdir or pdfToPng throws, otherwise the
\* number of page images.
Rasterizations == {-1} \cup (0..MaxPages)

\* The pageResults entry of a recognized page.
OkPage(i, conf) == [page |-> i, text |-> i, confidence |-> conf, error |-> "none"]

\* The pageResults entry pushed by the per-page catch block.
FailedPage(i, msg) == [page |-> i, text |-> 0, confidence |-> 0, error |-> msg]

\* `!p.error`: the entry has no error key, or a falsy one.
NoErrorKey(p) == p.error \in {"none", "undefined"}

RECURSIVE SumConfidence(_)
SumConfidence(ps) ==
    IF ps = <<>> THEN 0 ELSE Head(ps).confidence + SumConfidence(Tail(ps))

\* validResults and avgConfidence, as the fraction <<sum, count>>.
AverageConfidence(ps) ==
    LET validResults == SelectSeq(ps, NoErrorKey)
    IN  IF Len(validResults) > 0
        THEN <<SumConfidence(validResults), Len(validResults)>>
        ELSE <<0, 1>>

\* The success object performOCR returns.
OcrSuccess(tk) ==
    [status |-> "resolved", success |-> TRUE, error |-> "none",
     numPages |-> tk.pngPages, avg |-> AverageConfidence(tk.pageResults)]

EnterPage_SkipsAPage(tk, n) == [tk EXCEPT !.pc = "recognizing", !.i = n + 1]

\* The loop header with i = n: the next page's recognize is invoked.
EnterPage(tk, n) == [tk EXCEPT !.pc = "recognizing", !.i = n]

\* After the body of iteration tk.i: the next iteration, or the code after the
\* loop up to the next await or the return.
AfterPage(t, tk) ==
    IF tk.i < tk.pngPages
    THEN /\ task' = [task EXCEPT ![t] = EnterPage(tk, tk.i + 1)]
         /\ UNCHANGED sessions
    ELSE IF ~tk.reuseWorker
         THEN /\ sessions' = [sessions EXCEPT ![tk.worker] = TerminateInvoked(@)]
              /\ task' = [task EXCEPT ![t] = [tk EXCEPT !.pc = "own_terminate",
                                                         !.term = tk.worker]]
         ELSE /\ task' = [task EXCEPT ![t] = Resolved(tk, OcrSuccess(tk))]
              /\ UNCHANGED sessions

\* pdfToPng resolved or threw; with pages, the worker is requested.
Rasterized(t) ==
    /\ task[t].pc = "rasterizing"
    /\ \E n \in Rasterizations :
        IF n = -1
        THEN /\ task' = [task EXCEPT ![t] = Resolved(@, OcrFailure("Failed to convert PDF to images"))]
             /\ UNCHANGED <<workerInstance, workerLanguage, sessions>>
        ELSE IF n = 0
        THEN /\ task' = [task EXCEPT ![t] = Resolved(@, OcrFailure("No images were extracted from PDF"))]
             /\ UNCHANGED <<workerInstance, workerLanguage, sessions>>
        ELSE IF task[t].reuseWorker
        THEN EnterGetWorker(t, [task[t] EXCEPT !.pngPages = n, !.images = 1..n])
        ELSE /\ task' = [task EXCEPT ![t].pngPages = n, ![t].images = 1..n,
                                      ![t].pc = "own_create"]
             /\ UNCHANGED <<workerInstance, workerLanguage, sessions>>
    /\ UNCHANGED opCount
    /\ UNCHANGED <<storeVars, uploadVars, fnVars>>

\* `await getWorker(language)` resolved in the caller: getWorker's own caller
\* has the worker; performOCR enters the page loop.
GwReturned(t) ==
    /\ task[t].pc = "gw_return"
    /\ LET tk == [task[t] EXCEPT !.worker = task[t].ret]
       IN  task' = [task EXCEPT ![t] =
                IF tk.op = "getWorker"
                THEN Resolved(tk, [NoRun EXCEPT !.status = "resolved"])
                ELSE EnterPage(tk, 1)]
    /\ UNCHANGED <<workerInstance, workerLanguage, sessions, opCount>>
    /\ UNCHANGED <<storeVars, uploadVars, fnVars>>

\* reuseWorker=false: `await Tesseract.createWorker(language, 1, ...)` resolved
\* or rejected.
OwnCreated(t) ==
    /\ task[t].pc = "own_create"
    /\ \E ok \in CreateOutcomes(task[t].language) :
        IF ok
        THEN /\ sessions' = Append(sessions, NewSession(task[t].language, FALSE, task[t].seq))
             /\ task' = [task EXCEPT ![t] = EnterPage([@ EXCEPT !.worker = Len(sessions) + 1], 1)]
        ELSE /\ task' = [task EXCEPT ![t] = Resolved(@, OcrFailure("createWorker"))]
             /\ UNCHANGED sessions
    /\ UNCHANGED <<workerInstance, workerLanguage, opCount>>
    /\ UNCHANGED <<storeVars, uploadVars, fnVars>>

\* `await worker.recognize(imagePath)` resolved (only a live session can
\* recognize) or rejected: the catch block records the page and the loop goes on.
Recognized(t) ==
    /\ task[t].pc = "recognizing"
    /\ \/ /\ sessions[task[t].worker].state = "live"
          /\ \E conf \in Confidences :
                task' = [task EXCEPT ![t].pc = "unlinking", ![t].rec = conf]
          /\ UNCHANGED sessions
       \/ \E msg \in Messages :
            AfterPage(t, [task[t] EXCEPT
                            !.pageResults = Append(@, FailedPage(task[t].i, msg)),
                            !.failedPages = @ \cup {task[t].i}])
    /\ UNCHANGED <<workerInstance, workerLanguage, opCount>>
    /\ UNCHANGED <<storeVars, uploadVars, fnVars>>

\* `await fs.unlink(imagePath)` resolved, the image is gone; a rejection is
\* ignored by the code. The page is pushed.
Unlinked(t) ==
    /\ task[t].pc = "unlinking"
    /\ AfterPage(t, [task[t] EXCEPT
                        !.images = @ \ {task[t].i},
                        !.pageResults = Append(@, OkPage(task[t].i, task[t].rec)),
                        !.fullText = Append(@, task[t].i),
                        !.rec = 0])
    /\ UNCHANGED <<workerInstance, workerLanguage, opCount>>
    /\ UNCHANGED <<storeVars, uploadVars, fnVars>>

\* reuseWorker=false: `await worker.terminate()` resolved; the result is built.
OwnTerminated(t) ==
    /\ task[t].pc = "own_terminate"
    /\ sessions' = [sessions EXCEPT ![task[t].term] = TerminateResolved(@)]
    /\ task' = [task EXCEPT ![t] = Resolved(@, OcrSuccess(@))]
    /\ UNCHANGED <<workerInstance, workerLanguage, opCount>>
    /\ UNCHANGED <<storeVars, uploadVars, fnVars>>

\* The caller took the result of the call (`const r = await performOCR(...)`).
Retire(t) ==
    /\ task[t].pc = "done"
    /\ task' = [task EXCEPT ![t] = [IdleTask EXCEPT !.pc = "retired"]]
    /\ UNCHANGED <<workerInstance, workerLanguage, sessions, opCount>>
    /\ UNCHANGED <<storeVars, uploadVars, fnVars>>

\* The steps of a call once it has started.
OcrStep(t) ==
    \/ GwTerminated(t)
    \/ GwCreated(t)
    \/ GwReturned(t)
    \/ TwTerminated(t)
    \/ Rasterized(t)
    \/ OwnCreated(t)
    \/ Recognized(t)
    \/ Unlinked(t)
    \/ OwnTerminated(t)
    \/ Retire(t)

\* A caller starts a call.
OcrCall(t) ==
    \/ \E lang \in Languages : CallGetWorker(t, lang)
    \/ CallTerminateWorker(t)
    \/ \E lang \in Languages, reuse \in BOOLEAN : CallPerformOCR(t, lang, reuse)

\* No other call is under way: callers that await each call before the next.
Quiet(t) == \A u \in Tasks \ {t} : task[u].pc \in {"idle", "retired"}

\* Calls made concurrently (no caller awaits another's call).
OcrNext == \E t \in Tasks : OcrCall(t) \/ OcrStep(t)

\* Calls made one after the other.
OcrSeqNext == \E t \in Tasks : (Quiet(t) /\ OcrCall(t)) \/ OcrStep(t)

\* ------------------------------------------------------------------ texts
\* A text is a sequence of characters.
Whitespace == {" ", "\n", "\t", "\r"}
UppercaseLetters ==
    <<"A", "B", "C", "D", "E", "F", "G", "H", "I", "J", "K", "L", "M", "N",
    "O", "P", "Q", "R", "S", "T", "U", "V", "W", "X", "Y", "Z">>
LowercaseLetters ==
    <<"a", "b", "c", "d", "e", "f", "g", "h", "i", "j", "k", "l", "m", "n",
    "o", "p", "q", "r", "s", "t", "u", "v", "w", "x", "y", "z">>
Letters ==
    {UppercaseLetters[k] : k \in 1..26} \cup {LowercaseLetters[k] : k \in 1..26}
\* \w
WordChars == Letters \cup {"_", "0", "1", "2", "3", "4", "5", "6", "7", "8", "9"}
Alphabet == {"A", "a", ".", " ", "\n"}

\* Every text of at most n characters.
TextsUpTo(n) == UNION {[1..k -> Alphabet] : k \in 0..n}

\* n copies of ch.
Repeat(ch, n) == [k \in 1..n |-> ch]

RECURSIVE trimStart(_)
trimStart(s) ==
    IF s # <<>> /\ Head(s) \in Whitespace THEN trimStart(Tail(s)) ELSE s

\* A trimEnd that keeps the trailing whitespace.
trimEnd_Kept(s) == s

RECURSIVE trimEnd(_)
trimEnd(s) ==
    IF s # <<>> /\ s[Len(s)] \in Whitespace
    THEN trimEnd(SubSeq(s, 1, Len(s) - 1))
    ELSE s

\* String.prototype.trim
trim(s) == trimEnd(trimStart(s))

\* String.prototype.split(sep), sep one character.
RECURSIVE split(_, _)
split(s, sep) ==
    IF \A k \in 1..Len(s) : s[k] # sep
    THEN <<s>>
    ELSE LET i == CHOOSE k \in 1..Len(s) : s[k] = sep /\ \A j \in 1..(k - 1) : s[j] # sep
         IN  <<SubSeq(s, 1, i - 1)>> \o split(SubSeq(s, i + 1, Len(s)), sep)

\* Array.prototype.join(sep), sep one character.
RECURSIVE join(_, _)
join(lines, sep) ==
    IF lines = <<>> THEN <<>>
    ELSE IF Len(lines) = 1 THEN lines[1]
    ELSE lines[1] \o <<sep>> \o join(Tail(lines), sep)

\* A toLowerCase that changes nothing.
toLowerCase_Unchanged(s) == s

\* String.prototype.toLowerCase
toLowerCase(s) ==
    [k \in 1..Len(s) |->
        IF \E i \in 1..26 : UppercaseLetters[i] = s[k]
        THEN LowercaseLetters[CHOOSE i \in 1..26 : UppercaseLetters[i] = s[k]]
        ELSE s[k]]

\* replace(/\s+/g, ' ')
RECURSIVE collapseWhitespace(_)
collapseWhitespace(s) ==
    IF s = <<>> THEN <<>>
    ELSE IF Head(s) \in Whitespace THEN <<" ">> \o collapseWhitespace(trimStart(s))
    ELSE <<Head(s)>> \o collapseWhitespace(Tail(s))

\* split('\n').map(line => line.trim()).filter(line => line.length > 0)
NonEmptyLines(text) ==
    LET lines == split(text, "\n")
        trimmed == [k \in 1..Len(lines) |-> trim(lines[k])]
    IN  SelectSeq(trimmed, LAMBDA line : Len(line) > 0)

\* A comparison that keeps the case of the letters.
normalizeForComparison_KeepCase(text) ==
    trim(collapseWhitespace(
        SelectSeq(text, LAMBDA ch : ch \in WordChars \cup Whitespace)))

\* normalizeForComparison(text): lower case, drop what is neither \w nor \s,
\* collapse whitespace runs, trim.
normalizeForComparison(text) ==
    trim(collapseWhitespace(
        SelectSeq(toLowerCase(text), LAMBDA ch : ch \in WordChars \cup Whitespace)))

\* '\n\n--- Additional text from images ---\n\n'; "---" stands for the line
\* '--- Additional text from images ---'.
Separator == <<"\n", "\n", "---", "\n", "\n">>

\* The texts of the documented scenarios.
JohnDoeText ==
    <<"J", "o", "h", "n", " ", "D", "o", "e", "\n", "S", "o", "f", "t", "w",
      "a", "r", "e", " ", "E", "n", "g", "i", "n", "e", "e", "r">>
AcmeDigitalText ==
    <<"A", "c", "m", "e", " ", "C", "o", "r", "p", "\n", "E", "n", "g", "i",
      "n", "e", "e", "r">>
AcmeRecognitionText ==
    <<"a", "c", "m", "e", " ", "c", "o", "r", "p", "\n", "E", "n", "g", "i",
      "n", "e", "e", "r", "\n", "E", "x", "t", "r", "a", " ", "L", "i", "n",
      "e", " ", "F", "r", "o", "m", " ", "I", "m", "a", "g", "e">>

\* A merge that returns the digital text alone.
\* A mergeTexts that compares line k of the recognition text with line k of
\* the digital text only.
mergeTexts_Positional(regularText, ocrText) ==
    LET regular == trim(regularText)
        ocr == trim(ocrText)
        regularLines == NonEmptyLines(regular)
        ocrLines == NonEmptyLines(ocr)
        numbered == [k \in 1..Len(ocrLines) |-> <<k, ocrLines[k]>>]
        unique == SelectSeq(numbered,
                      LAMBDA p : \/ p[1] > Len(regularLines)
                                 \/ normalizeForComparison(p[2]) #
                                        normalizeForComparison(regularLines[p[1]]))
        uniqueOcrLines == [k \in 1..Len(unique) |-> unique[k][2]]
        combined == regular \o Separator \o join(uniqueOcrLines, "\n")
    IN  IF regular = <<>> THEN [combined |-> ocr, duplicatesRemoved |-> 0]
        ELSE IF ocr = <<>> THEN [combined |-> regular, duplicatesRemoved |-> 0]
        ELSE [combined |-> trim(combined),
              duplicatesRemoved |-> Len(ocrLines) - Len(uniqueOcrLines)]

mergeTexts_DigitalOnly(regularText, ocrText) ==
    [combined |-> trim(regularText), duplicatesRemoved |-> 0]

\* mergeTexts(regularText, ocrText) of ocrParser.js
mergeTexts(regularText, ocrText) ==
    LET regular == trim(regularText)
        ocr == trim(ocrText)
        regularLines == NonEmptyLines(regular)
        ocrLines == NonEmptyLines(ocr)
        regularSet == {normalizeForComparison(regularLines[k]) :
                           k \in 1..Len(regularLines)}
        uniqueOcrLines == SelectSeq(ocrLines,
                              LAMBDA line : normalizeForComparison(line) \notin regularSet)
        combined == regular \o Separator \o join(uniqueOcrLines, "\n")
    IN  IF regular = <<>> THEN [combined |-> ocr, duplicatesRemoved |-> 0]
        ELSE IF ocr = <<>> THEN [combined |-> regular, duplicatesRemoved |-> 0]
        ELSE [combined |-> trim(combined),
              duplicatesRemoved |-> Len(ocrLines) - Len(uniqueOcrLines)]

\* mergeTexts(regularText, ocrText) of unpdfParser.js: no separator when no
\* recognition line is kept.
mergeTextsUnpdf(regularText, ocrText) ==
    LET regular == trim(regularText)
        ocr == trim(ocrText)
        regularLines == NonEmptyLines(regular)
        ocrLines == NonEmptyLines(ocr)
        regularSet == {normalizeForComparison(regularLines[k]) :
                           k \in 1..Len(regularLines)}
        uniqueOcrLines == SelectSeq(ocrLines,
                              LAMBDA line : normalizeForComparison(line) \notin regularSet)
        combined == IF Len(uniqueOcrLines) > 0
                    THEN regular \o Separator \o join(uniqueOcrLines, "\n")
                    ELSE regular
    IN  IF regular = <<>> THEN [combined |-> ocr, duplicatesRemoved |-> 0]
        ELSE IF ocr = <<>> THEN [combined |-> regular, duplicatesRemoved |-> 0]
        ELSE [combined |-> trim(combined),
              duplicatesRemoved |-> Len(ocrLines) - Len(uniqueOcrLines)]

\* A detector without the per-page rule.
AvgBelowThreshold_Never(textLength, numPages) == FALSE

\* avgCharsPerPage < 50, with the threshold one character higher.
AvgBelowThreshold_AtMost(textLength, numPages) ==
    numPages > 0 /\ textLength <= CharsPerPage * numPages

\* textLength / numPages < 50. A division by zero gives Infinity or NaN, and
\* neither is below the threshold.
AvgBelowThreshold(textLength, numPages) ==
    numPages > 0 /\ textLength < CharsPerPage * numPages

\* meaningfulChars / textLength < 0.3; 0 / 0 is NaN, which is not below.
RatioBelowThreshold(meaningfulChars, textLength) ==
    textLength > 0 /\ RatioDen * meaningfulChars < RatioNum * textLength

\* A detector that looks at the share of non-whitespace characters only.
needsOCR_RatioOnly(text, numPages) ==
    RatioBelowThreshold(Len(SelectSeq(text, LAMBDA ch : ch \notin Whitespace)),
                        Len(trim(text)))

\* needsOCR(text, numPages)
needsOCR(text, numPages) ==
    LET textLength == Len(trim(text))
        meaningfulChars == Len(SelectSeq(text, LAMBDA ch : ch \notin Whitespace))
    IN  \/ AvgBelowThreshold(textLength, numPages)
        \/ RatioBelowThreshold(meaningfulChars, textLength)

\* needsOCR is called with a text and a page count.
CallNeedsOCR ==
    /\ fnIn.fn = "needsOCR"
    /\ fnOut.fn = "none"
    /\ fnOut' = [fn |-> "needsOCR", value |-> needsOCR(fnIn.text, fnIn.numPages)]
    /\ UNCHANGED <<fnIn, storeVars, ocrVars, uploadVars>>

\* mergeTexts is called with a digital text and a recognition text.
CallMergeTexts ==
    /\ fnIn.fn = "mergeTexts"
    /\ fnOut.fn = "none"
    /\ fnOut' = [fn |-> "mergeTexts",
                 ocrParser |-> mergeTexts(fnIn.regularText, fnIn.ocrText),
                 unpdfParser |-> mergeTextsUnpdf(fnIn.regularText, fnIn.ocrText)]
    /\ UNCHANGED <<fnIn, storeVars, ocrVars, uploadVars>>

\* A text of the given numbers of whitespace and other characters.
ShapedText(lead, letters, inner, trail) ==
    Repeat(" ", lead)
    \o (IF letters = 0 THEN <<>> ELSE <<"a">>)
    \o Repeat("\n", inner)
    \o (IF letters = 0 THEN <<>> ELSE Repeat("a", letters - 1))
    \o Repeat(" ", trail)

\* --------------------------------------------------- smartParse, hybridParse
\* result.data.text of page i.
RecognizedText(i) == Repeat("a", i)

\* fullText: `fullText += result.data.text + '\n\n'` for each recognized page.
RECURSIVE FullText(_)
FullText(pages) ==
    IF pages = <<>> THEN <<>>
    ELSE RecognizedText(Head(pages)) \o <<"\n", "\n">> \o FullText(Tail(pages))

\* text: fullText.trim() of the object performOCR returns.
OcrText(tk) == trim(FullText(tk.fullText))

\* What a regular parser extracts, text and page count: nothing on two pages,
\* two short lines on a page, a page full of letters, the same letters over the
\* most pages.
DigitalDocuments ==
    {<<<<>>, 2>>, <<JohnDoeText, 1>>, <<Repeat("a", CharsPerPage), 1>>,
     <<Repeat("a", CharsPerPage), MaxPages>>}

\* What regularParser(pdfPath) resolves with: {success: false, error} or
\* {success: true, text, numPages, ...}.
RegularAnswers ==
    {[status |-> "returned", success |-> FALSE, text |-> <<>>, numPages |-> 0]}
    \cup {[status |-> "returned", success |-> TRUE, text |-> d[1], numPages |-> d[2]] :
              d \in DigitalDocuments}

\* The synchronous start of performOCR(pdfPath, options) inside smartParse or
\* hybridParse, up to the rasterizer's await.
StartPerformOCR(t, tk) ==
    /\ opCount' = opCount + 1
    /\ task' = [task EXCEPT ![t] = [tk EXCEPT !.pc = "rasterizing",
                                              !.op = "performOCR",
                                              !.seq = opCount + 1,
                                              !.log = Append(@, "call performOCR")]]

\* A smartParse that runs recognition whatever the regular parser answered.
SmartAfterRegular_Always(rr) == "performOCR"

\* smartParse after `await regularParser(pdfPath)`: recognition when the
\* parser failed or needsOCR says so, otherwise the return at the end.
SmartAfterRegular(rr) ==
    IF ~rr.success THEN "performOCR"
    ELSE IF needsOCR(rr.text, rr.numPages) THEN "performOCR"
    ELSE "return"

\* The object performOCR resolved with, as smartParse passes it on.
FromPerformOCR(tk) ==
    [status |-> "returned", success |-> tk.out.success,
     text |-> IF tk.out.success THEN OcrText(tk) ELSE <<>>,
     numPages |-> tk.out.numPages,
     usedOCR |-> "absent",
     error |-> IF tk.out.success THEN "absent" ELSE tk.out.error,
     warning |-> "absent"]

\* {...regularResult, usedOCR: false, parsingTime}
FromRegular(rr) ==
    [status |-> "returned", success |-> rr.success, text |-> rr.text,
     numPages |-> rr.numPages, usedOCR |-> "false", error |-> "absent",
     warning |-> "absent"]

\* A smartParse that returns the regular parser's failure.
SmartOutcome_RegularOnly(tk) == FromRegular(tk.regular)

\* What smartParse returns, by the regular parser's answer and performOCR's
\* (tk.out, "none" when performOCR was not called).
SmartOutcome(tk) ==
    IF ~tk.regular.success THEN FromPerformOCR(tk)
    ELSE IF tk.out.status = "resolved" /\ tk.out.success
    THEN [status |-> "returned", success |-> TRUE, text |-> OcrText(tk),
          numPages |-> tk.out.numPages, usedOCR |-> "true", error |-> "absent",
          warning |-> "absent"]
    ELSE FromRegular(tk.regular)

\* A caller invokes smartParse(pdfPath, regularParser, {language, reuseWorker}).
CallSmartParse(t, lang, reuse) ==
    /\ task[t].pc = "idle"
    /\ task' = [task EXCEPT ![t] = [@ EXCEPT !.pc = "sp_regular", !.op = "smartParse",
                                             !.caller = "smartParse",
                                             !.language = lang, !.reuseWorker = reuse,
                                             !.log = <<"call regularParser">>]]
    /\ UNCHANGED <<workerInstance, workerLanguage, sessions, opCount>>
    /\ UNCHANGED <<storeVars, uploadVars, fnVars>>

\* smartParse: `await regularParser(pdfPath)` resolved.
SmartRegularReturned(t) ==
    /\ task[t].pc = "sp_regular"
    /\ \E rr \in RegularAnswers :
        LET tk == [task[t] EXCEPT !.regular = rr,
                                  !.log = Append(@, "return regularParser")]
        IN  IF SmartAfterRegular(rr) = "performOCR"
            THEN StartPerformOCR(t, tk)
            ELSE /\ task' = [task EXCEPT ![t] =
                                [tk EXCEPT !.pc = "done", !.final = SmartOutcome(tk)]]
                 /\ UNCHANGED opCount
    /\ UNCHANGED <<workerInstance, workerLanguage, sessions>>
    /\ UNCHANGED <<storeVars, uploadVars, fnVars>>

\* smartParse: `await performOCR(pdfPath, options)` resolved.
SmartOcrReturned(t) ==
    /\ task[t].pc = "ocr_return"
    /\ task[t].caller = "smartParse"
    /\ LET tk == [task[t] EXCEPT !.log = Append(@, "return performOCR")]
       IN  task' = [task EXCEPT ![t] =
                       [tk EXCEPT !.pc = "done", !.final = SmartOutcome(tk)]]
    /\ UNCHANGED <<workerInstance, workerLanguage, sessions, opCount>>
    /\ UNCHANGED <<storeVars, uploadVars, fnVars>>

\* A hybridParse that runs recognition only when needsOCR says so.
HybridAfterRegular_WhenNeeded(rr) == SmartAfterRegular(rr)

\* hybridParse after `await regularParser(pdfPath)`: always recognition.
HybridAfterRegular(rr) == "performOCR"

\* What hybridParse returns.
HybridOutcome(tk) ==
    LET regularText == IF tk.regular.success THEN tk.regular.text ELSE <<>>
        ocrRan == tk.out.status = "resolved"
        ocrText == IF ocrRan /\ tk.out.success THEN OcrText(tk) ELSE <<>>
        mergedText == mergeTexts(regularText, ocrText)
    IN  [status |-> "returned", success |-> TRUE, text |-> mergedText.combined,
         numPages |-> IF tk.regular.numPages # 0 THEN tk.regular.numPages
                      ELSE tk.out.numPages,
         usedOCR |-> "absent", error |-> "absent", warning |-> "absent"]

\* A caller invokes hybridParse(pdfPath, regularParser, {language, reuseWorker}).
CallHybridParse(t, lang, reuse) ==
    /\ task[t].pc = "idle"
    /\ task' = [task EXCEPT ![t] = [@ EXCEPT !.pc = "hp_regular", !.op = "hybridParse",
                                             !.caller = "hybridParse",
                                             !.language = lang, !.reuseWorker = reuse,
                                             !.log = <<"call regularParser">>]]
    /\ UNCHANGED <<workerInstance, workerLanguage, sessions, opCount>>
    /\ UNCHANGED <<storeVars, uploadVars, fnVars>>

\* hybridParse: `await regularParser(pdfPath)` resolved.
HybridRegularReturned(t) ==
    /\ task[t].pc = "hp_regular"
    /\ \E rr \in RegularAnswers :
        LET tk == [task[t] EXCEPT !.regular = rr,
                                  !.log = Append(@, "return regularParser")]
        IN  IF HybridAfterRegular(rr) = "performOCR"
            THEN StartPerformOCR(t, tk)
            ELSE /\ task' = [task EXCEPT ![t] =
                                [tk EXCEPT !.pc = "done",
                                           !.log = Append(@, "call mergeTexts"),
                                           !.final = HybridOutcome(tk)]]
                 /\ UNCHANGED opCount
    /\ UNCHANGED <<workerInstance, workerLanguage, sessions>>
    /\ UNCHANGED <<storeVars, uploadVars, fnVars>>

\* hybridParse: `await performOCR(pdfPath, {...options, verbose: true})`
\* resolved; the texts are merged and the result is returned.
HybridOcrReturned(t) ==
    /\ task[t].pc = "ocr_return"
    /\ task[t].caller = "hybridParse"
    /\ LET tk == [task[t] EXCEPT !.log = @ \o <<"return performOCR", "call mergeTexts">>]
       IN  task' = [task EXCEPT ![t] =
                       [tk EXCEPT !.pc = "done", !.final = HybridOutcome(tk)]]
    /\ UNCHANGED <<workerInstance, workerLanguage, sessions, opCount>>
    /\ UNCHANGED <<storeVars, uploadVars, fnVars>>

\* The steps of smartParse and hybridParse outside performOCR.
PipelineStep(t) ==
    \/ SmartRegularReturned(t)
    \/ SmartOcrReturned(t)
    \/ HybridRegularReturned(t)
    \/ HybridOcrReturned(t)

\* A caller starts a call.
PipelineCall(t) ==
    \/ \E lang \in Languages, reuse \in BOOLEAN : CallSmartParse(t, lang, reuse)
    \/ \E lang \in Languages, reuse \in BOOLEAN : CallHybridParse(t, lang, reuse)

\* The steps of the performOCR call inside smartParse or hybridParse.
PerformOcrStep(t) ==
    \/ GwTerminated(t)
    \/ GwCreated(t)
    \/ GwReturned(t)
    \/ Rasterized(t)
    \/ OwnCreated(t)
    \/ Recognized(t)
    \/ Unlinked(t)
    \/ OwnTerminated(t)
    \/ Retire(t)

\* smartParse and hybridParse called one after the other.
PipelineNext ==
    \E t \in PipelineTasks :
        (Quiet(t) /\ PipelineCall(t)) \/ PipelineStep(t) \/ PerformOcrStep(t)

vars == <<storeVars, ocrVars, uploadVars, fnVars>>

\* No function call is under way.
NoCall == [fn |-> "none"]

\* No request was answered.
UploadInit == httpStatus = [c \in Slots |-> 0]

FnInit == fnIn = NoCall /\ fnOut = NoCall

\* The arguments of a call of needsOCR.
DetectorInput(text, n) == [fn |-> "needsOCR", text |-> text, numPages |-> n]

\* The arguments of a call of mergeTexts.
MergeInput(r, o) == [fn |-> "mergeTexts", regularText |-> r, ocrText |-> o]

\* The table holds what earlier calls stored; no call is under way.
Init == StoreInit /\ OcrInit /\ UploadInit /\ FnInit

\* The same with an empty table.
EmptyInit == Init /\ table = {}

\* Calls of processAndStoreResume.
Spec == Init /\ [][StoreNext]_vars

\* Concurrent calls into ocrParser.js.
WorkerSpec == EmptyInit /\ [][OcrNext]_vars

\* Sequential calls into ocrParser.js.
SeqWorkerSpec == EmptyInit /\ [][OcrSeqNext]_vars

\* Before the calls no worker was created, or an earlier call left the shared
\* worker of some language behind.
WorkerBefore ==
    \/ /\ workerInstance = 0
       /\ workerLanguage = "null"
       /\ sessions = <<>>
    \/ \E lang \in Languages :
          /\ workerInstance = 1
          /\ workerLanguage = lang
          /\ sessions = <<NewSession(lang, TRUE, 0)>>

PipelineInit ==
    /\ StoreInit /\ table = {} /\ UploadInit /\ FnInit
    /\ task = [t \in Tasks |-> IdleTask]
    /\ opCount = 0
    /\ WorkerBefore

\* No row or every text was stored before; no call is under way.
TxInit ==
    /\ StoreInit /\ OcrInit /\ UploadInit /\ FnInit
    /\ table \in {{}, StoredBefore}

\* Calls of processAndStoreResume whose statements can fail.
TxNext ==
    \/ StoreNext
    \/ \E c \in Calls :
        \/ GetClientFailed(c)
        \/ StatementFailed(c)
        \/ CatchRollbackFailed(c)

TxSpec == TxInit /\ [][TxNext]_vars

\* Calls of performOCR with the options a caller may pass, one after the other.
OptionsNext ==
    \E t \in PipelineTasks :
        \/ /\ Quiet(t)
           /\ \E scale \in Scales, lang \in Languages \cup UnsupportedLanguages,
                 reuse \in BOOLEAN : CallPerformOCRWith(t, scale, lang, reuse)
        \/ PerformOcrStep(t)

OptionsSpec == PipelineInit /\ [][OptionsNext]_vars

\* Calls of smartParse and hybridParse.
PipelineSpec == PipelineInit /\ [][PipelineNext]_vars

\* Requests to POST /api/resume/upload.
UploadSpec == EmptyInit /\ [][UploadNext]_vars

\* A call of needsOCR.
DetectorInit ==
    /\ StoreInit /\ table = {} /\ OcrInit /\ UploadInit
    /\ \E lead \in 0..MaxOuter, letters \in 0..MaxLetters, inner \in 0..MaxInner,
          trail \in 0..MaxOuter, n \in 0..MaxPages :
           fnIn = DetectorInput(ShapedText(lead, letters, inner, trail), n)
    /\ fnOut = NoCall

DetectorSpec == DetectorInit /\ [][CallNeedsOCR]_vars

\* A call of mergeTexts.
MergeInit ==
    /\ StoreInit /\ table = {} /\ OcrInit /\ UploadInit
    /\ \/ \E r \in TextsUpTo(MaxRegularChars), o \in TextsUpTo(MaxOcrChars) :
              fnIn = MergeInput(r, o)
       \/ fnIn = MergeInput(AcmeDigitalText, AcmeRecognitionText)
    /\ fnOut = NoCall

MergeSpec == MergeInit /\ [][CallMergeTexts]_vars

\* ------------------------------------------------------ extraction adapters
\* parseWithPdfParse, parseWithPdfJs, parseWithPdf2Json, parseWithPdfReader,
\* parseWithUnpdf, by the `parser` field of what they return.
Adapters == {"pdf-parse", "pdfjs-dist", "pdf2json", "pdfreader", "unpdf"}
\* `typeof input === 'string'` (a file path) or a buffer.
InputKinds == {"path", "buffer"}

\* The arguments of a call of an adapter.
AdapterInput(a, kind) == [fn |-> "adapter", adapter |-> a, input |-> kind]

\* A call of an adapter that is under way. `step`: the await or event it waits
\* for; `page`, `numPages`, `text`: its local variables (a text is one of
\* Texts, 0 is the empty text); `hasText`, `hasError`: the keys `text` and
\* `error` of the object it resolves with.
AdapterRun ==
    [fn |-> "adapter", status |-> "running", step |-> "none", page |-> 0,
     numPages |-> 0, text |-> 0, success |-> FALSE, parser |-> "none",
     hasText |-> FALSE, hasError |-> FALSE, error |-> "none"]

AdapterAt(step) == [AdapterRun EXCEPT !.step = step]

\* return {success: true, parser, text, numPages, metadata, parsingTime}.
AdapterSuccess(a, text, n) ==
    [AdapterRun EXCEPT !.status = "resolved", !.step = "returned", !.success = TRUE,
                       !.parser = a, !.hasText = TRUE, !.text = text, !.numPages = n]

AdapterFailure_Rejects(a, message) ==
    [AdapterRun EXCEPT !.status = "rejected", !.step = "returned",
                       !.hasError = TRUE, !.error = message]

\* The catch blocks and error events:
\* {success: false, parser, error: error.message, parsingTime}.
AdapterFailure(a, message) ==
    [AdapterRun EXCEPT !.status = "resolved", !.step = "returned", !.success = FALSE,
                       !.parser = a, !.hasError = TRUE, !.error = message]

\* An adapter is called: up to its first await or event. pdf2json answers a
\* buffer at once; pdfreader reads a file path synchronously.
CallAdapter ==
    /\ fnIn.fn = "adapter"
    /\ fnOut.fn = "none"
    /\ LET a == fnIn.adapter
           isPath == fnIn.input = "path"
       IN  IF a \in {"pdf-parse", "pdfjs-dist", "unpdf"}
           THEN fnOut' = AdapterAt(IF isPath THEN "readFile" ELSE "library")
           ELSE IF a = "pdf2json"
           THEN fnOut' = IF isPath THEN AdapterAt("loadPDF")
                         ELSE AdapterFailure(a, "pdf2json requires file path, not buffer")
           ELSE \E ok \in (IF isPath THEN BOOLEAN ELSE {TRUE}) :
                    fnOut' = IF ok THEN AdapterAt("parseBuffer")
                             ELSE AdapterFailure(a, "ENOENT")
    /\ UNCHANGED <<fnIn, storeVars, ocrVars, uploadVars>>

\* `await fs.readFile(input)` resolved or rejected.
FileRead ==
    /\ fnOut.fn = "adapter" /\ fnOut.step = "readFile"
    /\ \E ok \in BOOLEAN :
        fnOut' = IF ok THEN [fnOut EXCEPT !.step = "library"]
                 ELSE AdapterFailure(fnIn.adapter, "ENOENT")
    /\ UNCHANGED <<fnIn, storeVars, ocrVars, uploadVars>>

\* pdf-parse, unpdf: `await pdf(dataBuffer)`, `await extractText(...)` resolved
\* or rejected.
LibraryAnswered ==
    /\ fnOut.fn = "adapter" /\ fnOut.step = "library"
    /\ fnIn.adapter \in {"pdf-parse", "unpdf"}
    /\ \/ \E text \in Texts \cup {0}, n \in 1..MaxPages :
            fnOut' = AdapterSuccess(fnIn.adapter, text, n)
       \/ fnOut' = AdapterFailure(fnIn.adapter, "library")
    /\ UNCHANGED <<fnIn, storeVars, ocrVars, uploadVars>>

\* pdfjs-dist: `await loadingTask.promise` resolved or rejected.
DocumentLoaded ==
    /\ fnOut.fn = "adapter" /\ fnOut.step = "library"
    /\ fnIn.adapter = "pdfjs-dist"
    /\ \/ \E n \in 1..MaxPages :
            fnOut' = [fnOut EXCEPT !.step = "getPage", !.page = 1, !.numPages = n]
       \/ fnOut' = AdapterFailure(fnIn.adapter, "library")
    /\ UNCHANGED <<fnIn, storeVars, ocrVars, uploadVars>>

\* pdfjs-dist: getPage and getTextContent of a page resolved, or one rejected.
PageRead ==
    /\ fnOut.fn = "adapter" /\ fnOut.step = "getPage"
    /\ \/ \E text \in Texts \cup {0} :
            fnOut' = [fnOut EXCEPT
                        !.text = IF text # 0 THEN text ELSE @,
                        !.page = @ + 1,
                        !.step = IF fnOut.page = fnOut.numPages THEN "getMetadata" ELSE @]
       \/ fnOut' = AdapterFailure(fnIn.adapter, "library")
    /\ UNCHANGED <<fnIn, storeVars, ocrVars, uploadVars>>

\* pdfjs-dist: `await pdfDocument.getMetadata()` resolved or rejected.
MetadataRead ==
    /\ fnOut.fn = "adapter" /\ fnOut.step = "getMetadata"
    /\ \/ fnOut' = AdapterSuccess(fnIn.adapter, fnOut.text, fnOut.numPages)
       \/ fnOut' = AdapterFailure(fnIn.adapter, "library")
    /\ UNCHANGED <<fnIn, storeVars, ocrVars, uploadVars>>

\* pdf2json: pdfParser_dataError, or pdfParser_dataReady whose handler builds
\* the text or catches what decodeURIComponent throws.
ParserEvent ==
    /\ fnOut.fn = "adapter" /\ fnOut.step = "loadPDF"
    /\ \/ fnOut' = AdapterFailure(fnIn.adapter, "parserError")
       \/ \E text \in Texts \cup {0}, n \in 0..MaxPages :
            fnOut' = AdapterSuccess(fnIn.adapter, text, n)
       \/ fnOut' = AdapterFailure(fnIn.adapter, "URI malformed")
    /\ UNCHANGED <<fnIn, storeVars, ocrVars, uploadVars>>

\* pdfreader: the parseBuffer callback is given an error, the end of the file,
\* a page or a text item.
ReaderItem ==
    /\ fnOut.fn = "adapter" /\ fnOut.step = "parseBuffer"
    /\ \/ fnOut' = AdapterFailure(fnIn.adapter, "library")
       \/ fnOut' = AdapterSuccess(fnIn.adapter, fnOut.text, fnOut.numPages)
       \/ \E p \in 1..MaxPages :
            fnOut' = [fnOut EXCEPT !.page = p,
                                   !.numPages = IF p > @ THEN p ELSE @]
       \/ \E text \in Texts : fnOut' = [fnOut EXCEPT !.text = text]
    /\ UNCHANGED <<fnIn, storeVars, ocrVars, uploadVars>>

AdapterNext ==
    \/ CallAdapter
    \/ FileRead
    \/ LibraryAnswered
    \/ DocumentLoaded
    \/ PageRead
    \/ MetadataRead
    \/ ParserEvent
    \/ ReaderItem

\* A call of an extraction adapter.
AdapterInit ==
    /\ StoreInit /\ table = {} /\ OcrInit /\ UploadInit
    /\ \E a \in Adapters, kind \in InputKinds : fnIn = AdapterInput(a, kind)
    /\ fnOut = NoCall

AdapterSpec == AdapterInit /\ [][AdapterNext]_vars

\* ================================================================ properties

\* The engines a call has invoked so far, in order: those that returned and
\* the one still running.
Attempted(c) ==
    [k \in 1..Len(invoked[c]) |-> invoked[c][k].engine]
        \o (IF inflight[c] # "none" THEN <<inflight[c]>> ELSE <<>>)

IsPrefix(a, b) == Len(a) <= Len(b) /\ \A k \in 1..Len(a) : a[k] = b[k]

\* The call is past its fallback chain.
ChainOver(c) == pc[c] \in {"catch", "select", "duplicate", "insert", "commit", "done"}

\* C1: once an engine invocation of a processAndStoreResume call has returned
\* success, the call invokes no further engine: a successful invocation is the
\* last one of the call and none is running after it.
C1_NoEngineAfterSuccess ==
    \A c \in Calls : \A k \in 1..Len(invoked[c]) :
        invoked[c][k].ok => (k = Len(invoked[c]) /\ inflight[c] = "none")

\* A call asked for pdfreader finished after pdfreader failed and the first
\* fallback succeeded.
C1_Witness ==
    \E c \in Calls :
        /\ pc[c] = "done"
        /\ originalParser[c] = "pdfreader"
        /\ Len(invoked[c]) = 2
        /\ ~invoked[c][1].ok /\ invoked[c][2].ok

\* The declared order for a requested name: the requested engine (pdfjs-dist
\* for any other name), then pdfjs-dist, pdf-parse, pdf2json without it.
DeclaredFallback == <<"pdfjs-dist", "pdf-parse", "pdf2json">>
RequestedEngine(req) == IF req \in Engines THEN req ELSE "pdfjs-dist"
DeclaredOrder(req) ==
    <<RequestedEngine(req)>>
        \o SelectSeq(DeclaredFallback, LAMBDA e : e # RequestedEngine(req))

AllFailed(c) == invoked[c] # <<>> /\ \A k \in 1..Len(invoked[c]) : ~invoked[c][k].ok

LiveShared == {s \in DOMAIN sessions : sessions[s].shared /\ sessions[s].state = "live"}

\* C4: under any interleaving of getWorker, performOCR (reuseWorker=true) and
\* terminateWorker calls, at most one session created through the shared
\* handle is live at any time.
C4_AtMostOneLiveSession == Cardinality(LiveShared) <= 1

\* C5: with two concurrent performOCR calls that reuse the worker and ask for
\* different languages, a call waiting for recognize always has a live session:
\* the session is not terminated under it, and recognize is not issued on a
\* terminated session.
C5_NoTeardownInUse ==
    \A t, u \in Tasks :
        ( /\ t # u
          /\ task[t].op = "performOCR" /\ task[t].reuseWorker
          /\ task[u].op = "performOCR" /\ task[u].reuseWorker
          /\ task[t].language # task[u].language
          /\ task[t].pc = "recognizing" )
        => sessions[task[t].worker].state = "live"

\* C6: in a sequential run, when a call for one language is followed by a call
\* for another language and both created a session through the handle, the
\* first session was terminated exactly once and its termination was complete
\* when the second session was created, so the two are never live together.
C6_OneTeardownBeforeNewSession ==
    \A a, b \in DOMAIN sessions :
        ( /\ sessions[a].shared /\ sessions[b].shared
          /\ sessions[a].lang # sessions[b].lang
          /\ sessions[b].op = sessions[a].op + 1 )
        => (sessions[a].terms = 1 /\ sessions[a].state = "terminated")

\* getWorker('eng') then getWorker('fra'), both done.
C6_Witness ==
    /\ Len(sessions) = 2
    /\ sessions[1].shared /\ sessions[1].lang = "eng" /\ sessions[1].op = 1
    /\ sessions[2].shared /\ sessions[2].lang = "fra" /\ sessions[2].op = 2
    /\ workerInstance = 2
    /\ \E t \in Tasks : task[t].pc = "done" /\ task[t].op = "getWorker"

\* C7: in a sequential run, for every call that reached getWorker: found
\* empty, the handle gets a session created for the call (the call fails only
\* if createWorker itself rejects); found holding the requested language, the
\* same session is returned and none is created or terminated; the session the
\* call worked with is not terminated by the call; and terminate is invoked on
\* the session of the handle only when another language is requested.
C7_LazyReuseNoTeardown ==
    \A t \in Tasks :
        LET tk == task[t]
            e == tk.entry
            mine == {s \in DOMAIN sessions : sessions[s].op = tk.seq}
        IN  (tk.op = "performOCR" /\ tk.reuseWorker /\ tk.pngPages > 0) =>
              /\ (tk.pc = "done" /\ e.inst = 0) =>
                    \/ tk.out.error = "createWorker"
                    \/ /\ tk.out.success
                       /\ tk.worker \in mine
                       /\ sessions[tk.worker].lang = tk.language
                       /\ workerInstance = tk.worker
              /\ (e.inst # 0 /\ e.lang = tk.language) =>
                    /\ mine = {}
                    /\ sessions[e.inst].terms = e.terms
                    /\ tk.pc \in {"recognizing", "unlinking", "done"} => tk.worker = e.inst
              /\ tk.worker # 0 =>
                    sessions[tk.worker].terms = (IF tk.worker \in mine THEN 0 ELSE e.terms)
              /\ (e.inst # 0 /\ sessions[e.inst].terms # e.terms) =>
                    (e.lang # tk.language /\ sessions[e.inst].terms = e.terms + 1)

\* A second performOCR call for the language of the session the first one
\* created has finished on that session.
C7_Witness ==
    \E t \in Tasks :
        /\ task[t].pc = "done" /\ task[t].op = "performOCR" /\ task[t].reuseWorker
        /\ task[t].out.success
        /\ task[t].entry.inst # 0
        /\ task[t].entry.lang = task[t].language
        /\ task[t].worker = task[t].entry.inst
        /\ sessions[task[t].worker].state = "live"

\* A performOCR call that returned its success object.
Returned(t) ==
    task[t].op = "performOCR" /\ task[t].pc = "done" /\ task[t].out.success

\* C8: a returned performOCR has one pageResults entry per rasterized page,
\* numbered 1..N in order, and the entry of every page whose recognition
\* failed has error set, confidence 0 and empty text.
C8_FailedPagesRecorded ==
    \A t \in Tasks : Returned(t) =>
        LET ps == task[t].pageResults
        IN  /\ Len(ps) = task[t].pngPages
            /\ \A k \in 1..Len(ps) : ps[k].page = k
            /\ \A k \in task[t].failedPages :
                    /\ ps[k].error \notin {"none", "undefined"}
                    /\ ps[k].confidence = 0
                    /\ ps[k].text = 0

\* Recognition failed on every page of the call's document.
EveryPageFailed(t) ==
    /\ task[t].op = "performOCR" /\ task[t].pc = "done"
    /\ task[t].pngPages > 0
    /\ task[t].failedPages = 1..task[t].pngPages

\* C9: when recognition fails on every page, performOCR returns
\* averageConfidence = 0 and success = false.
C9_AllPagesFailed ==
    \A t \in Tasks : EveryPageFailed(t) =>
        (task[t].out.avg[1] = 0 /\ ~task[t].out.success)

RECURSIVE SumOver(_, _)
SumOver(ps, pages) ==
    IF pages = {} THEN 0
    ELSE LET k == CHOOSE x \in pages : TRUE
         IN  ps[k].confidence + SumOver(ps, pages \ {k})

\* C10: the averageConfidence returned by performOCR is the mean confidence
\* over exactly the pages whose recognition did not fail (0 when there is none).
C10_MeanOverRecognizedPages ==
    \A t \in Tasks : Returned(t) =>
        LET recognized == (1..task[t].pngPages) \ task[t].failedPages
            avg == task[t].out.avg
        IN  IF recognized = {}
            THEN avg[1] = 0
            ELSE avg[1] * Cardinality(recognized)
                    = SumOver(task[t].pageResults, recognized) * avg[2]

\* ------------------------------------------------------------ needsOCR
\* Characters of a text that are not whitespace.
NonWhitespace(text) == Cardinality({k \in 1..Len(text) : text[k] \notin Whitespace})

\* Characters from the first to the last one that is not whitespace.
Extent(text) ==
    LET ks == {k \in 1..Len(text) : text[k] \notin Whitespace}
    IN  IF ks = {} THEN 0
        ELSE (CHOOSE k \in ks : \A j \in ks : j <= k)
             - (CHOOSE k \in ks : \A j \in ks : k <= j) + 1

\* needsOCR returned for a page count of at least one.
DetectorReturned == fnOut.fn = "needsOCR" /\ fnIn.numPages >= 1

\* C16 (as stated): for every text and every page count >= 1, needsOCR answers
\* true exactly when the number of extracted characters per page is below 50
\* or the share of non-whitespace characters among all extracted characters
\* is below 0.3.
C16_PolicyOverAllCharacters ==
    DetectorReturned =>
        (fnOut.value <=>
            \/ Len(fnIn.text) < CharsPerPage * fnIn.numPages
            \/ RatioDen * NonWhitespace(fnIn.text) < RatioNum * Len(fnIn.text))

\* C16 (amended): for every text and every page count >= 1, needsOCR answers
\* true exactly when the number of characters of the text without its leading
\* and trailing whitespace, per page, is below 50, or the share of
\* non-whitespace characters among those characters is below 0.3.
C16_PolicyOverTrimmedText ==
    DetectorReturned =>
        (fnOut.value <=>
            \/ Extent(fnIn.text) < CharsPerPage * fnIn.numPages
            \/ RatioDen * NonWhitespace(fnIn.text) < RatioNum * Extent(fnIn.text))

\* A text with whitespace around it, long enough per page, that the ratio rule
\* sends to recognition.
C16_Witness ==
    /\ DetectorReturned
    /\ fnOut.value
    /\ Extent(fnIn.text) < Len(fnIn.text)
    /\ Extent(fnIn.text) >= CharsPerPage * fnIn.numPages

\* ------------------------------------------------------------ mergeTexts
MergeReturned == fnOut.fn = "mergeTexts"

\* Both inputs are non-empty after trimming.
BothNonEmpty == trim(fnIn.regularText) # <<>> /\ trim(fnIn.ocrText) # <<>>

\* The words of a line: lower case, punctuation dropped, split at whitespace.
RECURSIVE WordsOf(_)
WordsOf(s) ==
    LET t == SelectSeq(trimStart(s), LAMBDA ch : ch \in WordChars \cup Whitespace)
        u == trimStart(t)
        ends == {k \in 1..Len(u) : u[k] \in Whitespace}
        n == IF ends = {} THEN Len(u) + 1 ELSE CHOOSE k \in ends : \A j \in ends : k <= j
    IN  IF u = <<>> THEN <<>>
        ELSE <<toLowerCase(SubSeq(u, 1, n - 1))>> \o WordsOf(SubSeq(u, n, Len(u)))

DigitalLines == NonEmptyLines(fnIn.regularText)
RecognitionLines == NonEmptyLines(fnIn.ocrText)

\* The recognition lines whose normal form no digital line has.
KeptLines ==
    SelectSeq(RecognitionLines,
              LAMBDA line : \A k \in 1..Len(DigitalLines) :
                                WordsOf(line) # WordsOf(DigitalLines[k]))

\* C17: for two inputs that are non-empty after trimming, mergeTexts returns
\* the whole digital text, then the separator, then exactly the non-empty
\* recognition lines whose normal form is the normal form of no digital line,
\* in their order; duplicatesRemoved is the number of recognition lines
\* dropped.
C17_MergeKeepsDigitalAndNewLines ==
    (MergeReturned /\ BothNonEmpty) =>
        /\ fnOut.ocrParser.combined =
               trim(trim(fnIn.regularText) \o Separator \o join(KeptLines, "\n"))
        /\ fnOut.ocrParser.duplicatesRemoved = Len(RecognitionLines) - Len(KeptLines)

\* A merge that dropped one recognition line and kept another.
C17_Witness ==
    /\ MergeReturned
    /\ BothNonEmpty
    /\ fnOut.ocrParser.duplicatesRemoved >= 1
    /\ Len(KeptLines) >= 1

\* C18: merging a non-empty text T with itself, with the mergeTexts hybridParse
\* uses, gives duplicatesRemoved equal to the number of non-empty lines of T
\* and a combined text equal to T (without the whitespace around it).
C18_SelfMergeGivesTheText ==
    (MergeReturned /\ BothNonEmpty /\ fnIn.regularText = fnIn.ocrText) =>
        /\ fnOut.ocrParser.duplicatesRemoved = Len(DigitalLines)
        /\ fnOut.ocrParser.combined = trim(fnIn.regularText)

\* The same statement of the mergeTexts of unpdfParser.js.
SelfMergeGivesTheTextUnpdf ==
    (MergeReturned /\ BothNonEmpty /\ fnIn.regularText = fnIn.ocrText) =>
        /\ fnOut.unpdfParser.duplicatesRemoved = Len(DigitalLines)
        /\ fnOut.unpdfParser.combined = trim(fnIn.regularText)

\* ------------------------------------------------- duplicate detection
\* C19: after any sequence or interleaving of processAndStoreResume calls the
\* parsedResume table never holds two rows with the same content_hash.
C19_UniqueContentHash ==
    \A r1 \in table, r2 \in table : r1.hash = r2.hash => r1 = r2

\* Two calls extracted the same text and passed the SELECT before either
\* inserted; one stored its row and the INSERT of the other was rejected.
C19_Witness ==
    \E c \in Uploads, d \in Uploads :
        /\ c # d
        /\ result[c].kind = "stored"
        /\ result[c].hash = generateHash(parseResult[d].text)
        /\ parseResult[d].success
        /\ pc[d] = "done"
        /\ thrown[d] = UniqueViolation

\* C20: a call whose extracted text has a content_hash that is already stored,
\* or is being stored by a concurrent call, returns duplicate=true with the id
\* of the existing row and inserts nothing; the endpoint answers 409, never
\* 500.
C20_DuplicateAnswered ==
    \A c \in Uploads :
        (/\ pc[c] = "done"
         /\ parseResult[c].success
         /\ result[c].kind # "stored")
        => /\ result[c].kind = "duplicate"
           /\ \E r \in RowsWithHash(generateHash(parseResult[c].text)) :
                  r.id = result[c].id
           /\ httpStatus[c] \in {0, 409}

\* ------------------------------------------------ smartParse, hybridParse
\* How often an entry occurs in a log.
Occurrences(log, e) == Cardinality({k \in 1..Len(log) : log[k] = e})

\* The call of the function has returned.
Finished(t, fn) == task[t].pc = "done" /\ task[t].caller = fn

\* The regular parser has answered with success and needsOCR says no.
DigitalSuffices(t) ==
    /\ task[t].regular.status = "returned"
    /\ task[t].regular.success
    /\ ~needsOCR(task[t].regular.text, task[t].regular.numPages)

\* C11: whenever the regular parser succeeds and needsOCR is false, smartParse
\* never invokes performOCR and returns the regular parser's text and page
\* count unchanged with usedOCR=false; in every smartParse call the regular
\* parser is invoked exactly once and performOCR at most once.
C11_SmartSkipsRecognition ==
    \A t \in Tasks :
        task[t].caller = "smartParse" =>
            /\ Occurrences(task[t].log, "call regularParser") = 1
            /\ Occurrences(task[t].log, "call performOCR") <= 1
            /\ DigitalSuffices(t) =>
                   /\ Occurrences(task[t].log, "call performOCR") = 0
                   /\ task[t].pc = "done"
                   /\ task[t].final.success
                   /\ task[t].final.text = task[t].regular.text
                   /\ task[t].final.numPages = task[t].regular.numPages
                   /\ task[t].final.usedOCR = "false"

\* A smartParse call returned the digital text without recognition.
C11_Witness ==
    \E t \in Tasks :
        /\ Finished(t, "smartParse")
        /\ DigitalSuffices(t)
        /\ task[t].final.text = Repeat("a", CharsPerPage)

\* C12: if the regular parser fails, smartParse invokes performOCR exactly
\* once as the sole source, and its outcome is successful exactly when
\* recognition succeeds, with the recognition text as the transcript.
C12_SmartFallsBackToRecognition ==
    \A t \in Tasks :
        (/\ Finished(t, "smartParse")
         /\ ~task[t].regular.success)
        => /\ task[t].log = <<"call regularParser", "return regularParser",
                              "call performOCR", "return performOCR">>
           /\ task[t].final.success = task[t].out.success
           /\ task[t].out.success => task[t].final.text = OcrText(task[t])

\* The regular parser failed and recognition gave the text of a page.
C12_Witness ==
    \E t \in Tasks :
        /\ Finished(t, "smartParse")
        /\ ~task[t].regular.success
        /\ task[t].final.success
        /\ task[t].final.text # <<>>

\* performOCR was called and answered with success: false.
RecognitionFailed(t) ==
    task[t].out.status = "resolved" /\ ~task[t].out.success

\* C13: if recognition fails but digital extraction succeeded, neither
\* smartParse nor hybridParse fails: the outcome is successful, its text is the
\* digital text only, usedOCR is false, and the recognition error is in a
\* warning field of the outcome.
C13_RecognitionFailureIsAWarning ==
    \A t \in Tasks :
        (/\ task[t].pc = "done"
         /\ task[t].caller \in {"smartParse", "hybridParse"}
         /\ task[t].regular.success
         /\ RecognitionFailed(t))
        => /\ task[t].final.success
           /\ task[t].final.text = trim(task[t].regular.text)
           /\ task[t].final.usedOCR = "false"
           /\ task[t].final.warning = task[t].out.error

\* C14: hybridParse always invokes the regular parser and then performOCR,
\* whatever the regular parser's outcome and whatever needsOCR would answer,
\* and always passes both texts through mergeTexts; recognition starts only
\* after the regular parser has returned.
C14_HybridAlwaysRunsBoth ==
    \A t \in Tasks :
        Finished(t, "hybridParse") =>
            /\ task[t].log = <<"call regularParser", "return regularParser",
                               "call performOCR", "return performOCR",
                               "call mergeTexts">>
            /\ task[t].final.text =
                   mergeTexts(IF task[t].regular.success
                              THEN task[t].regular.text ELSE <<>>,
                              IF task[t].out.success
                              THEN OcrText(task[t]) ELSE <<>>).combined

\* hybridParse ran recognition although the digital text sufficed, and merged.
C14_Witness ==
    \E t \in Tasks :
        /\ Finished(t, "hybridParse")
        /\ DigitalSuffices(t)
        /\ task[t].out.success
        /\ OcrText(task[t]) # <<>>

\* C15: hybridParse returns a failure outcome (success=false with error set)
\* when both the digital extraction and recognition fail, and it sets error
\* only in that case.
C15_HybridFailsWhenBothFail ==
    \A t \in Tasks :
        Finished(t, "hybridParse") =>
            LET bothFailed == ~task[t].regular.success /\ RecognitionFailed(t)
            IN  /\ bothFailed =>
                       ~task[t].final.success /\ task[t].final.error # "absent"
                /\ task[t].final.error # "absent" => bothFailed

\* ------------------------------------------------- the fallback chain, again
\* C22: within one processAndStoreResume call no extraction engine is invoked
\* more than once, for every requested name and all engine outcomes.
C22_NoEngineTwice ==
    \A c \in Calls :
        \A j \in 1..Len(Attempted(c)), k \in 1..Len(Attempted(c)) :
            Attempted(c)[j] = Attempted(c)[k] => j = k

\* A call asked for pdf2json ran through the whole chain: pdf2json, pdfjs-dist
\* and pdf-parse failed, and the third fallback was skipped.
C22_Witness ==
    \E c \in Calls :
        /\ pc[c] = "done"
        /\ originalParser[c] = "pdf2json"
        /\ Attempted(c) = <<"pdf2json", "pdfjs-dist", "pdf-parse">>
        /\ AllFailed(c)

\* C23: on a successful processAndStoreResume the reported and the stored
\* parserUsed is the engine whose invocation produced the stored text, for
\* every requested name and every fallback path.
C23_ParserUsedIsTheProducer ==
    \A c \in Calls :
        result[c].kind = "stored" =>
            LET last == invoked[c][Len(invoked[c])]
            IN  /\ last.ok
                /\ result[c].parserUsed = last.engine
                /\ \E r \in table : /\ r.id = result[c].id
                                    /\ r.hash = generateHash(parseResult[c].text)
                                    /\ r.parser = last.engine

\* A call made with an unrecognised name stored the text pdf-parse produced
\* after pdfjs-dist failed.
C23_Witness ==
    \E c \in Calls :
        /\ result[c].kind = "stored"
        /\ originalParser[c] = "unknown"
        /\ Attempted(c) = <<"pdfjs-dist", "pdf-parse">>

\* ------------------------------------------------------------- scenarios
\* smartParse returned and its regular parser had answered with this text and
\* page count.
SmartReturnedOn(t, text, n) ==
    /\ Finished(t, "smartParse")
    /\ task[t].regular.success
    /\ task[t].regular.text = text
    /\ task[t].regular.numPages = n

\* C25 (as stated): smartParse whose regular parser returns "John Doe\nSoftware
\* Engineer" for a 1-page document does not invoke performOCR and returns that
\* text unchanged with usedOCR=false.
C25_JohnDoeSkipsRecognition ==
    \A t \in Tasks :
        SmartReturnedOn(t, JohnDoeText, 1) =>
            /\ Occurrences(task[t].log, "call performOCR") = 0
            /\ task[t].final.text = JohnDoeText
            /\ task[t].final.usedOCR = "false"

\* C25 (amended): smartParse whose regular parser returns "John Doe\nSoftware
\* Engineer" (26 characters) for a 1-page document invokes performOCR once; it
\* returns the recognition text with usedOCR=true when recognition succeeds
\* and the digital text unchanged with usedOCR=false when recognition fails.
C25_JohnDoeIsRecognized ==
    \A t \in Tasks :
        SmartReturnedOn(t, JohnDoeText, 1) =>
            /\ Occurrences(task[t].log, "call performOCR") = 1
            /\ task[t].final.success
            /\ IF task[t].out.success
               THEN /\ task[t].final.text = OcrText(task[t])
                    /\ task[t].final.usedOCR = "true"
               ELSE /\ task[t].final.text = JohnDoeText
                    /\ task[t].final.numPages = 1
                    /\ task[t].final.usedOCR = "false"

\* The call returned the text recognition gave for the document.
C25_Witness ==
    \E t \in Tasks :
        /\ SmartReturnedOn(t, JohnDoeText, 1)
        /\ task[t].out.success
        /\ task[t].final.text = RecognizedText(1)

\* C26: smartParse whose regular parser succeeds with empty text for a 2-page
\* document invokes recognition and returns the recognition text as it is,
\* with usedOCR=true.
C26_EmptyTextIsRecognized ==
    \A t \in Tasks :
        SmartReturnedOn(t, <<>>, 2) =>
            /\ task[t].log = <<"call regularParser", "return regularParser",
                               "call performOCR", "return performOCR">>
            /\ task[t].out.success =>
                   /\ task[t].final.success
                   /\ task[t].final.text = OcrText(task[t])
                   /\ task[t].final.numPages = task[t].out.numPages
                   /\ task[t].final.usedOCR = "true"

\* The call returned the text of two recognized pages.
C26_Witness ==
    \E t \in Tasks :
        /\ SmartReturnedOn(t, <<>>, 2)
        /\ task[t].final.usedOCR = "true"
        /\ task[t].final.text = RecognizedText(1) \o <<"\n", "\n">> \o RecognizedText(2)

\* Places where sub occurs in text.
OccurrencesOf(sub, text) ==
    {k \in 1..(Len(text) - Len(sub) + 1) : SubSeq(text, k, k + Len(sub) - 1) = sub}

\* mergeTexts returned for the digital text "Acme Corp\nEngineer" and the
\* recognition text "acme corp\nEngineer\nExtra Line From Image".
AcmeMerged ==
    /\ MergeReturned
    /\ fnIn.regularText = AcmeDigitalText
    /\ fnIn.ocrText = AcmeRecognitionText

\* What the scenario says of the combined text: it contains "Acme Corp",
\* "Engineer" once and "Extra Line From Image".
AcmeCombined ==
    /\ OccurrencesOf(SubSeq(AcmeDigitalText, 1, 9), fnOut.ocrParser.combined) # {}
    /\ Cardinality(OccurrencesOf(SubSeq(AcmeDigitalText, 11, 18),
                                 fnOut.ocrParser.combined)) = 1
    /\ OccurrencesOf(SubSeq(AcmeRecognitionText, 20, 40), fnOut.ocrParser.combined) # {}

\* C27 (as stated): the combined text contains "Acme Corp", "Engineer" exactly
\* once and "Extra Line From Image", and duplicatesRemoved = 1.
C27_AcmeOneDuplicate ==
    AcmeMerged => (AcmeCombined /\ fnOut.ocrParser.duplicatesRemoved = 1)

\* C27 (amended): the combined text contains "Acme Corp", "Engineer" exactly
\* once and "Extra Line From Image", and duplicatesRemoved = 2: the
\* recognition lines "acme corp" and "Engineer" are both dropped.
C27_AcmeTwoDuplicates ==
    AcmeMerged =>
        /\ AcmeCombined
        /\ fnOut.ocrParser.duplicatesRemoved = 2
        /\ KeptLines = <<SubSeq(AcmeRecognitionText, 20, 40)>>

\* The scenario's merge was made.
C27_Witness == AcmeMerged /\ fnOut.ocrParser.duplicatesRemoved > 0

\* ------------------------------------------------------- option validation
\* The options of performOCR call t fail validation: a scale that is not
\* positive or a language code that is not supported.
InvalidOptions(t) ==
    /\ task[t].op = "performOCR"
    /\ task[t].pc # "idle"
    /\ (task[t].scale <= 0 \/ task[t].language \in UnsupportedLanguages)

\* Call t is inside the rasterizer or has asked for or holds a recognition
\* session.
EngineInvoked(t) ==
    \/ task[t].pc \in {"rasterizing", "gw_terminate", "gw_create", "gw_return",
                       "own_create", "recognizing", "unlinking", "own_terminate"}
    \/ task[t].pngPages > 0
    \/ task[t].worker # 0

\* C21: performOCR called with a non-positive scale or an unsupported language
\* code fails before the rasterizer or the recognition engine is invoked.
C21_InvalidOptionsFailFast ==
    \A t \in Tasks : InvalidOptions(t) => ~EngineInvoked(t)

ObtainedClient(c) == txLog[c] # <<>>

\* The client is held from getClient until the call ends, and not after.
ReleasedAtTheEnd(c) ==
    /\ (pc[c] \notin {"idle", "getClient", "done"}) => clientHeld[c]
    /\ pc[c] = "done" => ~clientHeld[c]

\* C28 (as stated): a call that obtained a client issues BEGIN first, ends the
\* transaction with exactly one COMMIT (only when the row was inserted) or
\* exactly one ROLLBACK, never both and never twice, and releases the client
\* on every path, including those where a query fails.
C28_OneCommitOrOneRollback ==
    \A c \in Calls :
        ObtainedClient(c) =>
            /\ txLog[c][1] = "BEGIN"
            /\ Occurrences(txLog[c], "BEGIN") = 1
            /\ Occurrences(txLog[c], "COMMIT") + Occurrences(txLog[c], "ROLLBACK") <= 1
            /\ Occurrences(txLog[c], "COMMIT") = 1 => Occurrences(txLog[c], "INSERT") = 1
            /\ pc[c] = "done" =>
                 Occurrences(txLog[c], "COMMIT") + Occurrences(txLog[c], "ROLLBACK") = 1
            /\ ReleasedAtTheEnd(c)

\* C28 (amended): a call that obtained a client issues BEGIN first, issues
\* COMMIT at most once and only after the INSERT, and releases the client on
\* every path. A call that stored the row issued COMMIT and no ROLLBACK; any
\* other call ends with ROLLBACK as its last statement. Exactly one of COMMIT
\* and ROLLBACK was issued unless COMMIT or the ROLLBACK of the duplicate
\* branch failed: then the catch block issued one more ROLLBACK, after the
\* COMMIT or as a second ROLLBACK.
C28_CatchRollsBackOnceMore ==
    \A c \in Calls :
        ObtainedClient(c) =>
            LET commits == Occurrences(txLog[c], "COMMIT")
                rollbacks == Occurrences(txLog[c], "ROLLBACK")
                failed == IF thrown[c][1] = "query failed" THEN thrown[c][2] ELSE "none"
            IN  /\ txLog[c][1] = "BEGIN"
                /\ Occurrences(txLog[c], "BEGIN") = 1
                /\ commits <= 1
                /\ commits = 1 => /\ Occurrences(txLog[c], "INSERT") = 1
                                  /\ pc[c] \in {"commit", "catch", "done"}
                /\ rollbacks = (IF pc[c] \in {"duplicate", "catch"}
                                   \/ (pc[c] = "done" /\ result[c].kind # "stored")
                                THEN 1 ELSE 0)
                               + (IF failed = "ROLLBACK" THEN 1 ELSE 0)
                /\ (commits = 1 /\ rollbacks > 0) <=> failed = "COMMIT"
                /\ pc[c] = "done" =>
                     /\ result[c].kind = "stored" => (commits = 1 /\ rollbacks = 0)
                     /\ result[c].kind # "stored" =>
                            txLog[c][Len(txLog[c])] = "ROLLBACK"
                     /\ (failed \notin {"COMMIT", "ROLLBACK"}) => commits + rollbacks = 1
                /\ ReleasedAtTheEnd(c)

\* COMMIT failed and the call returned after the ROLLBACK of the catch block.
C28_Witness ==
    \E c \in Calls :
        /\ pc[c] = "done"
        /\ result[c].kind = "error"
        /\ txLog[c] = <<"BEGIN", "SELECT", "INSERT", "COMMIT", "ROLLBACK">>

\* ------------------------------------------------------- teardown of the handle
\* terminateWorker call t has completed and no getWorker or performOCR call
\* started after that.
TerminatedLast(t) ==
    /\ task[t].op = "terminateWorker"
    /\ task[t].pc = "done"
    /\ \A u \in Tasks \ {t} :
        /\ task[u].pc # "retired"
        /\ task[u].pc # "idle" => task[u].seq <= task[t].end

\* C29: after terminateWorker has completed, with no getWorker call started
\* afterwards, the handle is empty and no session created through it is live,
\* whatever getWorker calls ran concurrently with it.
C29_NoOrphanAfterTerminate ==
    \A t \in Tasks :
        TerminatedLast(t) => (workerInstance = 0 /\ LiveShared = {})

\* Sequentially called on an empty handle, terminateWorker invokes nothing and
\* leaves the handle empty.
TerminateOnEmptyIsNoOp ==
    \A t \in Tasks :
        (task[t].op = "terminateWorker" /\ task[t].entry.inst = 0) =>
            (task[t].term = 0 /\ task[t].pc = "done" /\ workerInstance = 0)

\* No call is under way.
AllQuiet == \A t \in Tasks : task[t].pc \in {"idle", "done", "retired"}

\* C30: when createWorker fails inside getWorker after the old session was
\* terminated for a language change, the handle does not keep the terminated
\* session: between calls the handle is empty or holds a live session, so no
\* later getWorker call is handed a terminated worker.
C30_HandleDropsTerminatedSession ==
    /\ AllQuiet =>
         (workerInstance # 0 => sessions[workerInstance].state = "live")
    /\ \A t \in Tasks :
         (task[t].op = "getWorker" /\ task[t].pc = "gw_return") =>
             sessions[task[t].ret].state = "live"

\* ------------------------------------------------- the outcome of smartParse
\* The text smartParse returned is the text recognition produced.
TextFromRecognition(t) ==
    /\ task[t].out.status = "resolved"
    /\ task[t].out.success
    /\ task[t].final.text = OcrText(task[t])
    /\ (~task[t].regular.success \/ task[t].final.text # task[t].regular.text)

\* C31: every successful smartParse outcome carries a usedOCR flag, true
\* exactly when the returned text was produced by recognition and false
\* exactly when it was produced by the regular parser, also when the regular
\* parser failed and recognition was the sole source.
C31_UsedOcrTellsTheSource ==
    \A t \in Tasks :
        (Finished(t, "smartParse") /\ task[t].final.success) =>
            /\ task[t].final.usedOCR \in {"true", "false"}
            /\ task[t].final.usedOCR = "true" <=> TextFromRecognition(t)

\* C32: smartParse never returns a successful outcome with empty text when the
\* regular parser produced non-empty text; when every page fails recognition
\* the outcome is the digital text.
C32_NeverEmptyWhenDigitalTextExists ==
    \A t \in Tasks :
        ( /\ Finished(t, "smartParse")
          /\ task[t].regular.success
          /\ task[t].regular.text # <<>>
          /\ task[t].final.success )
        => /\ task[t].final.text # <<>>
           /\ (task[t].out.status = "resolved"
                 /\ task[t].failedPages = 1..task[t].pngPages)
                => task[t].final.text = task[t].regular.text

\* ------------------------------------------------------- failures as results
\* C33: processAndStoreResume never rejects: every failure (of getClient, of
\* BEGIN, of the engines, of a query, of COMMIT or ROLLBACK) comes back as a
\* result object with success=false and error set.
C33_FailuresAreResults ==
    \A c \in Calls :
        pc[c] = "done" =>
            /\ result[c].kind # "rejected"
            /\ (thrown[c] # NoError) =>
                 (result[c].kind = "error" /\ ~result[c].success
                    /\ result[c].error = thrown[c])

\* ---------------------------------------------------------------- page order
\* The pages 1..n that are not in `failed`, in ascending order.
RECURSIVE AscendingWithout(_, _)
AscendingWithout(n, failed) ==
    IF n = 0 THEN <<>>
    ELSE AscendingWithout(n - 1, failed) \o (IF n \in failed THEN <<>> ELSE <<n>>)

\* C34: within one performOCR call pages are recognized one at a time in page
\* order: while page i is being recognized exactly pages 1..i-1 have been
\* recorded, in order, and the text is made of the texts of the pages
\* recognized so far, in page order; the returned text is that of all the
\* successfully recognized pages in page order.
C34_PagesInOrder ==
    \A t \in Tasks :
        task[t].op = "performOCR" =>
            LET tk == task[t]
                n == Len(tk.pageResults)
            IN  /\ \A k \in 1..n : tk.pageResults[k].page = k
                /\ tk.failedPages = {k \in 1..n : tk.pageResults[k].error # "none"}
                /\ tk.fullText = AscendingWithout(n, tk.failedPages)
                /\ tk.pc \in {"recognizing", "unlinking"} =>
                       (tk.i = n + 1 /\ tk.i <= tk.pngPages)
                /\ (tk.pc = "done" /\ tk.out.success) =>
                       /\ n = tk.pngPages
                       /\ OcrText(tk) = trim(FullText(AscendingWithout(n, tk.failedPages)))

\* A call returned after its first page failed and its second was recognized.
C34_Witness ==
    \E t \in Tasks :
        /\ task[t].op = "performOCR" /\ task[t].pc = "done" /\ task[t].out.success
        /\ task[t].pngPages = 2
        /\ task[t].failedPages = {1}
        /\ OcrText(task[t]) = RecognizedText(2)

\* --------------------------------------------------------- one input empty
\* The text holds whitespace only.
Blank(text) == \A k \in 1..Len(text) : text[k] \in Whitespace

\* The text from its first to its last character that is not whitespace.
Stripped(text) ==
    LET ks == {k \in 1..Len(text) : text[k] \notin Whitespace}
    IN  IF ks = {} THEN <<>>
        ELSE SubSeq(text, CHOOSE k \in ks : \A j \in ks : k <= j,
                          CHOOSE k \in ks : \A j \in ks : j <= k)

\* C35 (as stated): if either input of mergeTexts is empty after trimming,
\* the combined text is the other input unchanged and duplicatesRemoved is 0.
C35_OtherInputUnchanged ==
    MergeReturned =>
        /\ Blank(fnIn.regularText) =>
             (fnOut.ocrParser.combined = fnIn.ocrText
                /\ fnOut.ocrParser.duplicatesRemoved = 0)
        /\ (~Blank(fnIn.regularText) /\ Blank(fnIn.ocrText)) =>
             (fnOut.ocrParser.combined = fnIn.regularText
                /\ fnOut.ocrParser.duplicatesRemoved = 0)

\* C35 (amended): if either input of mergeTexts is empty after trimming, the
\* combined text is the other input without its leading and trailing
\* whitespace and duplicatesRemoved is 0.
C35_OtherInputTrimmed ==
    MergeReturned =>
        /\ Blank(fnIn.regularText) =>
             (fnOut.ocrParser.combined = Stripped(fnIn.ocrText)
                /\ fnOut.ocrParser.duplicatesRemoved = 0)
        /\ (~Blank(fnIn.regularText) /\ Blank(fnIn.ocrText)) =>
             (fnOut.ocrParser.combined = Stripped(fnIn.regularText)
                /\ fnOut.ocrParser.duplicatesRemoved = 0)

\* A blank digital text merged with a recognition text that ends in whitespace.
C35_Witness ==
    /\ MergeReturned
    /\ Blank(fnIn.regularText)
    /\ ~Blank(fnIn.ocrText)
    /\ fnIn.ocrText[Len(fnIn.ocrText)] \in Whitespace
    /\ fnOut.ocrParser.combined # fnIn.ocrText

\* ------------------------------------------------------ length of the merge
RECURSIVE TotalLength(_)
TotalLength(lines) ==
    IF lines = <<>> THEN 0 ELSE Len(Head(lines)) + TotalLength(Tail(lines))

\* The recognition lines dropped as duplicates.
DroppedLines ==
    SelectSeq(RecognitionLines,
              LAMBDA line : \E k \in 1..Len(DigitalLines) :
                                WordsOf(line) = WordsOf(DigitalLines[k]))

\* C36 (as stated): the combined text is at least as long as the digital text
\* and at least as long as the recognition text minus the total length of the
\* recognition lines dropped as duplicates.
C36_NeverShorterThanTheSources ==
    MergeReturned =>
        /\ Len(fnOut.ocrParser.combined) >= Len(fnIn.regularText)
        /\ Len(fnOut.ocrParser.combined) >=
               Len(fnIn.ocrText) - TotalLength(DroppedLines)

\* C36 (amended): the combined text is at least as long as the digital text
\* without its leading and trailing whitespace, and at least as long as the
\* non-empty recognition lines that were not dropped as duplicates, each
\* trimmed, joined by newlines.
C36_NeverShorterThanTheContent ==
    MergeReturned =>
        /\ Len(fnOut.ocrParser.combined) >= Len(Stripped(fnIn.regularText))
        /\ Len(fnOut.ocrParser.combined) >= Len(join(KeptLines, "\n"))

\* A merge that dropped lines and is shorter than its two inputs together.
C36_Witness ==
    /\ MergeReturned
    /\ BothNonEmpty
    /\ DroppedLines # <<>>
    /\ KeptLines # <<>>
    /\ Len(fnOut.ocrParser.combined) < Len(fnIn.regularText) + Len(fnIn.ocrText)

\* ----------------------------------------------------- a document of no pages
\* C37: needsOCR called with page count 0 does not recommend recognition: it
\* returns false for every text.
C37_NoPagesNoRecognition ==
    (fnOut.fn = "needsOCR" /\ fnIn.numPages = 0) => ~fnOut.value

\* ------------------------------------------------------- temporary images
\* C38: when performOCR returns, every page image the rasterizer produced has
\* been deleted, also the images of pages whose recognition failed and those
\* of a call that fails after rasterization.
C38_NoImageLeftBehind ==
    \A t \in Tasks :
        task[t].out.status = "resolved" => task[t].images = {}

\* ------------------------------------------------------ a private session
\* The performOCR calls made with reuseWorker=false.
PrivateCall(tk) == tk.op = "performOCR" /\ ~tk.reuseWorker

\* The sessions the call created.
CreatedBy(tk) == {s \in DOMAIN sessions : sessions[s].op = tk.seq}

\* What holds at every moment of a reuseWorker=false call: its worker is the
\* one session it created, a private one the handle never refers to, on which
\* terminate is not invoked during the page loop and has been invoked once when
\* the call returns.
PrivateSessionLifecycle ==
    \A t \in Tasks :
        LET tk == task[t]
        IN  PrivateCall(tk) =>
              /\ CreatedBy(tk) = (IF tk.worker = 0 THEN {} ELSE {tk.worker})
              /\ tk.worker # 0 =>
                    /\ ~sessions[tk.worker].shared
                    /\ workerInstance # tk.worker
                    /\ tk.pc \in {"recognizing", "unlinking"} =>
                          (sessions[tk.worker].terms = 0 /\ sessions[tk.worker].state = "live")
                    /\ tk.out.status = "resolved" =>
                          (sessions[tk.worker].terms = 1 /\ sessions[tk.worker].state = "terminated")

\* A step of a reuseWorker=false call changes neither the handle nor any
\* session but the one the call created.
PrivateCallStep ==
    \A t \in Tasks :
        (task'[t] # task[t] /\ PrivateCall(task'[t])) =>
            /\ workerInstance' = workerInstance
            /\ workerLanguage' = workerLanguage
            /\ \A s \in DOMAIN sessions :
                  sessions'[s] # sessions[s] => (s = task[t].worker /\ ~sessions[s].shared)

\* C39: performOCR with reuseWorker=false creates a private session, invokes
\* terminate on it exactly once before it returns on every path after the
\* creation, and leaves the shared handle (workerInstance, workerLanguage) and
\* the session of the handle as they are.
C39_PrivateSessionTerminatedOnce ==
    []PrivateSessionLifecycle /\ [][PrivateCallStep]_vars

\* A reuseWorker=false call returned with a failed page while the handle holds
\* a live shared session.
C39_Witness ==
    \E t \in Tasks :
        /\ PrivateCall(task[t])
        /\ task[t].out.success
        /\ task[t].failedPages # {}
        /\ sessions[task[t].worker].terms = 1
        /\ workerInstance # 0
        /\ sessions[workerInstance].state = "live"

\* ------------------------------------------------- the order of the lines
\* The orders the digital lines can be put in.
LineOrders ==
    {p \in [1..Len(DigitalLines) -> 1..Len(DigitalLines)] :
        \A i, j \in DOMAIN p : p[i] = p[j] => i = j}

\* The digital text with its lines in the order p.
Reordered(p) == join([k \in 1..Len(DigitalLines) |-> DigitalLines[p[k]]], "\n")

\* What a combined text holds after the separator line: the recognition lines
\* that were not dropped.
AdditionalText(combined) ==
    IF \A k \in 1..Len(combined) : combined[k] # "---"
    THEN <<>>
    ELSE LET k == CHOOSE i \in 1..Len(combined) : combined[i] = "---"
         IN  SubSeq(combined, k + 3, Len(combined))

\* C40: for mergeTexts, permuting the lines of the digital input while keeping
\* the same set of lines changes neither which recognition lines are dropped as
\* duplicates nor duplicatesRemoved.
C40_DigitalLineOrderIsIrrelevant ==
    (MergeReturned /\ BothNonEmpty) =>
        \A p \in LineOrders :
            LET other == mergeTexts(Reordered(p), fnIn.ocrText)
            IN  /\ other.duplicatesRemoved = fnOut.ocrParser.duplicatesRemoved
                /\ AdditionalText(other.combined) = AdditionalText(fnOut.ocrParser.combined)

\* A merge of a digital text of several lines that has another order, where
\* some recognition lines were dropped and some were kept.
C40_Witness ==
    /\ MergeReturned
    /\ BothNonEmpty
    /\ \E p \in LineOrders : Reordered(p) # trim(fnIn.regularText)
    /\ fnOut.ocrParser.duplicatesRemoved > 0
    /\ AdditionalText(fnOut.ocrParser.combined) # <<>>

====
